---- MODULE Spec2Model ----
(***************************************************************************)
(* A/R payment tracker (ar_platform.py): the store (users, access grants,  *)
(* clients, invoices, payments), the session, and the request handlers.    *)
(*                                                                         *)
(* Money is an integer number of mills (1/1000 of a currency unit), so     *)
(* that values with more than two decimals exist: 300.00 is 300000 and     *)
(* 99.996 is 99996.  The handlers' tolerance 1e-9 is far below one mill,   *)
(* so on this grid "x > y + 1e-9" is "x > y" and "x + 1e-9 < y" is         *)
(* "x < y".  Every input amount is an even number of mills, so a           *)
(* difference or a sum of them never lies exactly halfway between two      *)
(* cents and round(x, 2) never meets a tie.                                *)
(*                                                                         *)
(* A date string "YYYY-MM-DD" is the triple <<y, m, d>>; the same date     *)
(* written without leading zeros, "YYYY-M-D", which strptime accepts as    *)
(* well, is <<y, m, d, "u">>.  The store keeps the string as it was sent.  *)
(***************************************************************************)
EXTENDS Integers, Sequences, FiniteSets, TLC

VARIABLES
    users,      \* table users: sequence indexed by id of [email, salt, hash, is_admin]
    grants,     \* table user_ar_access: set of <<user_id, ar_id>>
    session,    \* per browser session: [uid, ar], 0 = key absent
    clients,    \* table clients: sequence indexed by id of [ar, name]
    invoices,   \* table invoices: sequence indexed by id
    payments,   \* table payments: set of rows, ids never reused
    nextPid,    \* AUTOINCREMENT counter of payments
    procs,      \* in-flight requests of the interleaved specification
    dbLock,     \* connection holding SQLite's write lock, 0 = none
    last        \* the last request that committed or changed the session

vars == <<users, grants, session, clients, invoices, payments, nextPid, procs, dbLock, last>>
store == <<users, grants, clients, invoices, payments, nextPid>>

----------------------------------------------------------------------------
(* Bounds of the model. *)
MaxInvoices == 2
MaxPayments == 2
MaxUsers == 2
MaxClients == 2

(* init_db seeds two A/R entities: id 1 'Red Roof Inn', id 2 'Motel 6'. *)
ArIds == {1, 2}
ArName(a) == IF a = 1 THEN "Red Roof Inn" ELSE "Motel 6"
Sessions == {1, 2}
Procs == {1, 2}

NoSession == [uid |-> 0, ar |-> 0]
NoRequest == [op |-> "none", sess |-> 0, args |-> [none |-> 0]]
IdleProc == [pc |-> "idle", sess |-> 0, invoice |-> 0, payment |-> 0, amount |-> 0,
             inv_amt |-> 0]

----------------------------------------------------------------------------
(* Pure helpers. *)

RECURSIVE SumAmounts(_)
SumAmounts(S) ==
    IF S = {} THEN 0
    ELSE LET p == CHOOSE x \in S : TRUE IN p.amount + SumAmounts(S \ {p})

(* Python round(x, 2) on a value in mills: the nearest cent, ties to even. *)
Round2(x) ==
    LET q == x \div 10
        r == x % 10
    IN  IF r < 5 THEN q * 10
        ELSE IF r > 5 THEN (q + 1) * 10
        ELSE IF q % 2 = 0 THEN q * 10 ELSE (q + 1) * 10

(* f"{x:.2f}": the value printed with two decimals. *)
Format2(x) == Round2(x)

IsLeap(y) == (y % 4 = 0) /\ ((y % 100 # 0) \/ (y % 400 = 0))
DaysInMonth(y, m) ==
    IF m = 2 THEN (IF IsLeap(y) THEN 29 ELSE 28)
    ELSE IF m \in {4, 6, 9, 11} THEN 30 ELSE 31
RECURSIVE DaysBeforeMonth(_, _)
DaysBeforeMonth(y, m) ==
    IF m <= 1 THEN 0 ELSE DaysBeforeMonth(y, m - 1) + DaysInMonth(y, m - 1)
(* datetime.strptime(s, "%Y-%m-%d").date() as a proleptic Gregorian ordinal. *)
parse_date(s) ==
    LET y == s[1] - 1
    IN  y * 365 + (y \div 4) - (y \div 100) + (y \div 400)
        + DaysBeforeMonth(s[1], s[2]) + s[3]

(* Mutant: the difference is returned as it is, negative or zero included. *)
compute_nights_raw(check_in, check_out) == parse_date(check_out) - parse_date(check_in)

compute_nights(check_in, check_out) ==
    LET nights == parse_date(check_out) - parse_date(check_in)
    IN  IF nights <= 0 THEN 0 ELSE nights

(* The characters of a date string: digits as 0..9, "-" as -1 (it sorts    *)
(* before every digit).                                                     *)
DigitsOf(n, padded) ==
    IF n >= 10 THEN <<n \div 10, n % 10>> ELSE IF padded THEN <<0, n>> ELSE <<n>>
DateChars(d) ==
    <<d[1] \div 1000, (d[1] \div 100) % 10, (d[1] \div 10) % 10, d[1] % 10, -1>>
        \o DigitsOf(d[2], Len(d) = 3) \o <<-1>> \o DigitsOf(d[3], Len(d) = 3)

(* SQLite's "<" on two TEXT values: byte by byte, a proper prefix first. *)
RECURSIVE SeqLess(_, _)
SeqLess(a, b) ==
    IF b = <<>> THEN FALSE
    ELSE IF a = <<>> THEN TRUE
    ELSE IF Head(a) # Head(b) THEN Head(a) < Head(b)
    ELSE SeqLess(Tail(a), Tail(b))
TextLess(a, b) == SeqLess(DateChars(a), DateChars(b))

(* A raised ValueError, and a returned (start, end) pair of isoformat()     *)
(* strings.                                                                 *)
ValueError == [kind |-> "ValueError"]
Window(start, end) == [kind |-> "window", start |-> start, end |-> end]

(* date(year, month, 1) raises outside MINYEAR..MAXYEAR. *)
YearOk(year) == year >= 1 /\ year <= 9999

(* Mutant: December's window ends at <<year, 13, 1>>. *)
month_range_nowrap(year, month) ==
    IF month < 1 \/ month > 12 \/ ~ YearOk(year) THEN ValueError
    ELSE Window(<<year, month, 1>>, <<year, month + 1, 1>>)

month_range(year, month) ==
    IF month < 1 \/ month > 12 THEN ValueError
    ELSE IF ~ YearOk(year) THEN ValueError
    ELSE IF month = 12
        THEN (IF YearOk(year + 1) THEN Window(<<year, 12, 1>>, <<year + 1, 1, 1>>)
              ELSE ValueError)
    ELSE Window(<<year, month, 1>>, <<year, month + 1, 1>>)

year_range(year) ==
    IF YearOk(year) /\ YearOk(year + 1) THEN Window(<<year, 1, 1>>, <<year + 1, 1, 1>>)
    ELSE ValueError

(* overlap_sql with its parameters (end, start):                            *)
(* "(i.check_in < ? AND i.check_out > ?)", on the stored strings.           *)
overlap_sql(check_in, check_out, w) ==
    TextLess(check_in, w.end) /\ TextLess(w.start, check_out)

PaymentsOf(inv_id) == {p \in payments : p.invoice = inv_id}
PaidSum(inv_id) == SumAmounts(PaymentsOf(inv_id))

(* Mutant: the balance is returned without rounding. *)
paid_and_balance_unrounded(inv_id) ==
    <<invoices[inv_id].amount, PaidSum(inv_id), invoices[inv_id].amount - PaidSum(inv_id)>>

(* paid_and_balance: <<amount, paid, round(amount - paid, 2)>>. *)
paid_and_balance(inv_id) ==
    LET amt == invoices[inv_id].amount
        paid == PaidSum(inv_id)
    IN  <<amt, paid, Round2(amt - paid)>>

(* Mutant: the VOID test compares with the wrong case and never matches. *)
IsVoid_never(status) == status = "void"

(* (row["status"] or "OPEN").upper() == "VOID" *)
IsVoid(status) == status = "VOID"

(* Mutant: the invoice lookup forgets to compare the row's entity. *)
InvoiceMissing_noar(invoice_id, ar_id) == invoice_id \notin DOMAIN invoices

(* "not row or row['ar_id'] != ar_id" of the invoice handlers. *)
InvoiceMissing(invoice_id, ar_id) ==
    \/ invoice_id \notin DOMAIN invoices
    \/ invoices[invoice_id].ar # ar_id

(* Mutant: the payment lookup forgets to compare the invoice's entity. *)
PaymentMissing_noar(payment_id, ar_id) == ~ \E p \in payments : p.id = payment_id

(* The payment row joined with its invoice, missing or of another entity. *)
PaymentMissing(payment_id, ar_id) ==
    \/ ~ \E p \in payments : p.id = payment_id
    \/ \E p \in payments : p.id = payment_id /\ invoices[p.invoice].ar # ar_id

PaymentRow(payment_id) == CHOOSE p \in payments : p.id = payment_id

----------------------------------------------------------------------------
(* What a handler answers: the response kind and the number or rows in it. *)
(* A handler that answers anything but "ok" has returned before its first  *)
(* write (or its connection was closed uncommitted), so it is no step of   *)
(* the state machine: the actions below are guarded by an "ok" answer.     *)

R(res, msg) == [res |-> res, msg |-> msg]

Done(op, s, args) == last' = [op |-> op, sess |-> s, args |-> args]

----------------------------------------------------------------------------
(* Form-field conversions. *)

(* str.strip() on the strings the requests send. *)
Strip(x) ==
    IF x = " A " THEN "A"
    ELSE IF x = "  " THEN ""
    ELSE IF x = " Ann " THEN "Ann"
    ELSE IF x = " A@X " THEN "A@X"
    ELSE IF x = " 2024 " THEN "2024"
    ELSE IF x = " Acme " THEN "Acme"
    ELSE IF x = " Check " THEN "Check"
    ELSE x

(* str.lower() *)
Lower(x) ==
    IF x = "A@X" THEN "a@x"
    ELSE IF x \in {"Cash", "CASH"} THEN "cash"
    ELSE IF x \in {"Check", "CHECK"} THEN "check"
    ELSE x

(* (method or "").strip().lower() *)
NormMethod(m) == Lower(Strip(m))

(* "not x" of an optional form field: None and "" are both falsy. *)
Falsy(x) == x \in {"None", ""}

(* int(s2) on the texts the requests send; any other text raises ValueError. *)
IntOf ==
    ("2023" :> 2023) @@ ("2024" :> 2024) @@ ("2025" :> 2025) @@ ("0" :> 0) @@ ("1" :> 1)
    @@ ("2" :> 2) @@ ("02" :> 2) @@ ("3" :> 3) @@ ("12" :> 12) @@ ("13" :> 13)
    @@ ("-1" :> -1) @@ ("4" :> 4) @@ ("5" :> 5) @@ ("6" :> 6) @@ ("7" :> 7) @@ ("8" :> 8)
    @@ ("9" :> 9) @@ ("10" :> 10) @@ ("11" :> 11)

(* parse_opt_int: <<>> is None, <<n>> the integer n. *)
parse_opt_int(s) ==
    IF s = "None" THEN <<>>
    ELSE IF Strip(s) = "" THEN <<>>
    ELSE IF Strip(s) \in DOMAIN IntOf THEN <<IntOf[Strip(s)]>>
    ELSE <<>>

(* Truth value of an Optional[int]: None and 0 are false. *)
Truthy(v) == v # <<>> /\ v[1] # 0

----------------------------------------------------------------------------
(* Identity and access. *)

(* pbkdf2_hmac(password, salt): injective in both arguments. *)
hash_password(password, salt) == <<salt, password>>

verify_password(password, salt, pwd_hash) == hash_password(password, salt) = pwd_hash

current_user(s) ==
    IF session[s].uid = 0 \/ session[s].uid \notin DOMAIN users THEN 0
    ELSE session[s].uid

user_allowed_ar_ids(uid) == {a \in ArIds : <<uid, a>> \in grants}

(* Mutant: the gate trusts the session's entity without reading the grants. *)
ensure_scope_nogrant(s) ==
    IF current_user(s) = 0 THEN "NotAuthenticated"
    ELSE IF session[s].ar = 0 THEN "NoArSelected"
    ELSE "ok"

ensure_scope(s) ==
    IF current_user(s) = 0 THEN "NotAuthenticated"
    ELSE IF session[s].ar = 0 THEN "NoArSelected"
    ELSE IF session[s].ar \notin user_allowed_ar_ids(current_user(s)) THEN "ArNotAllowed"
    ELSE "ok"

UserByEmail(email) ==
    IF \E u \in DOMAIN users : users[u].email = email
    THEN CHOOSE u \in DOMAIN users : users[u].email = email
    ELSE 0

register_result(email) ==
    IF UserByEmail(Lower(Strip(email))) # 0 THEN R("EmailTaken", 0) ELSE R("ok", 0)

(* Mutant: every account is stored with is_admin = 1. *)
register_alladmin(email, password, salt) ==
    LET uid == Len(users) + 1
        row == [email |-> Lower(Strip(email)), salt |-> salt,
                hash |-> hash_password(password, salt), is_admin |-> TRUE]
    IN  /\ register_result(email).res = "ok"
        /\ Len(users) < MaxUsers
        /\ users' = Append(users, row)
        /\ grants' = IF Len(users) = 0 THEN grants \cup {<<uid, a>> : a \in ArIds} ELSE grants
        /\ Done("register", 0, [email |-> email])
        /\ UNCHANGED <<session, clients, invoices, payments, nextPid, procs, dbLock>>

register(email, password, salt) ==
    LET exists == Len(users)
        uid == Len(users) + 1
        row == [email |-> Lower(Strip(email)), salt |-> salt,
                hash |-> hash_password(password, salt), is_admin |-> (exists = 0)]
    IN  /\ register_result(email).res = "ok"
        /\ Len(users) < MaxUsers
        /\ users' = Append(users, row)
        /\ grants' = IF exists = 0 THEN grants \cup {<<uid, a>> : a \in ArIds} ELSE grants
        /\ Done("register", 0, [email |-> email])
        /\ UNCHANGED <<session, clients, invoices, payments, nextPid, procs, dbLock>>

login_result(email, password) ==
    LET u == UserByEmail(Lower(Strip(email)))
    IN  IF u = 0 \/ ~ verify_password(password, users[u].salt, users[u].hash)
        THEN R("InvalidCredentials", 0)
        ELSE R("ok", u)

(* First granted entity in ORDER BY ar.name, 0 when there is none. *)
FirstArByName(uid) ==
    LET ars == user_allowed_ar_ids(uid)
    IN  IF ars = {} THEN 0
        ELSE CHOOSE a \in ars : \A b \in ars : b = a \/ ArName(a) = "Motel 6"

(* Mutant: a login sets the user and leaves the selected entity as it was. *)
login_keeps_ar(s, email, password) ==
    LET r == login_result(email, password)
    IN  /\ r.res = "ok"
        /\ session' = [session EXCEPT ![s].uid = r.msg]
        /\ Done("login", s, [email |-> email])
        /\ UNCHANGED <<store, procs, dbLock>>

(* login: session["uid"] = row["id"], then set_current_ar(ars[0]) or        *)
(* session.pop("ar_id"). *)
login(s, email, password) ==
    LET r == login_result(email, password)
    IN  /\ r.res = "ok"
        /\ session' = [session EXCEPT ![s] = [uid |-> r.msg, ar |-> FirstArByName(r.msg)]]
        /\ Done("login", s, [email |-> email])
        /\ UNCHANGED <<store, procs, dbLock>>

logout(s) ==
    /\ session' = [session EXCEPT ![s] = NoSession]
    /\ Done("logout", s, [none |-> 0])
    /\ UNCHANGED <<store, procs, dbLock>>

do_switch_ar_result(s, ar_id) ==
    IF current_user(s) = 0 THEN R("NotAuthenticated", 0)
    ELSE IF ar_id \notin user_allowed_ar_ids(current_user(s)) THEN R("Forbidden", 0)
    ELSE R("ok", 0)

do_switch_ar(s, ar_id) ==
    /\ do_switch_ar_result(s, ar_id).res = "ok"
    /\ session' = [session EXCEPT ![s].ar = ar_id]
    /\ Done("do_switch_ar", s, [ar |-> ar_id])
    /\ UNCHANGED <<store, procs, dbLock>>

(* Mutant: the handler tests only that somebody is logged in. *)
admin_users_save_result_anyuser(s) ==
    IF current_user(s) = 0 THEN R("AdminOnly", 0) ELSE R("ok", 0)

admin_users_save_result(s) ==
    IF current_user(s) = 0 \/ ~ users[current_user(s)].is_admin THEN R("AdminOnly", 0)
    ELSE R("ok", 0)

(* The handler's loop over every (user, entity) pair, on the rows g of      *)
(* user_ar_access; form is the set of pairs whose checkbox key is present.  *)
(* Mutant: the INSERT is executed whenever the key is present.              *)
GrantInserts_nocheck(g, form) == {x \in (DOMAIN users) \X ArIds : x \in form}

(* "if has and not exists": the pairs the loop INSERTs. *)
GrantInserts(g, form) == {x \in (DOMAIN users) \X ArIds : x \in form /\ x \notin g}

(* "if not has and exists": the pairs the loop DELETEs. *)
GrantDeletes(g, form) == {x \in (DOMAIN users) \X ArIds : x \notin form /\ x \in g}

(* PRIMARY KEY (user_id, ar_id): an INSERT of a stored pair raises. *)
GrantInsertOk(g, form) == GrantInserts(g, form) \cap g = {}

GrantsAfterSave(g, form) == (g \cup GrantInserts(g, form)) \ GrantDeletes(g, form)

admin_users_save(s, form) ==
    /\ admin_users_save_result(s).res = "ok"
    /\ GrantInsertOk(grants, form)
    /\ grants' = GrantsAfterSave(grants, form)
    /\ Done("admin_users_save", s, [form |-> form])
    /\ UNCHANGED <<users, session, clients, invoices, payments, nextPid, procs, dbLock>>

----------------------------------------------------------------------------
(* Clients. *)

(* Mutant: the table has no UNIQUE(ar_id, name). *)
ClientNameTaken_never(ar_id, name) == FALSE

(* UNIQUE(ar_id, name) refuses the INSERT. *)
ClientNameTaken(ar_id, name) ==
    \E c \in DOMAIN clients : clients[c].ar = ar_id /\ clients[c].name = name

clients_add_result(s, name) ==
    IF ensure_scope(s) # "ok" THEN R(ensure_scope(s), 0)
    ELSE IF ClientNameTaken(session[s].ar, Strip(name)) THEN R("NameTaken", 0)
    ELSE R("ok", 0)

(* (company or "").strip() or None *)
CompanyValue(company) ==
    IF Falsy(company) \/ Strip(company) = "" THEN "None" ELSE Strip(company)

clients_add(s, name, company) ==
    /\ clients_add_result(s, name).res = "ok"
    /\ Len(clients) < MaxClients
    /\ clients' = Append(clients, [ar |-> session[s].ar, name |-> Strip(name),
                                   company |-> CompanyValue(company)])
    /\ Done("clients_add", s, [name |-> name])
    /\ UNCHANGED <<users, grants, session, invoices, payments, nextPid, procs, dbLock>>

----------------------------------------------------------------------------
(* Invoice ledger. *)

(* Mutant: the client lookup forgets "AND ar_id = ?". *)
ClientInAr_anyar(client_id, ar_id) == client_id \in DOMAIN clients

(* "SELECT 1 FROM clients WHERE id = ? AND ar_id = ?" finds a row. *)
ClientInAr(client_id, ar_id) ==
    client_id \in DOMAIN clients /\ clients[client_id].ar = ar_id

NumberTaken(ar_id, number) ==
    \E i \in DOMAIN invoices : invoices[i].ar = ar_id /\ invoices[i].number = number

(* Mutant: the amount is stored without rounding. *)
InvoiceAmount_unrounded(rate, nights) == rate * nights

(* round(float(rate) * nights, 2) *)
InvoiceAmount(rate, nights) == Round2(rate * nights)

(* Mutant: the unique index on (ar_id, invoice_number) is missing. *)
InvoiceInsertOk_nouniq(ar_id, number, amount) == amount >= 0

(* Mutant: the table has no CHECK(amount >= 0). *)
InvoiceInsertOk_nocheck(ar_id, number, amount) == ~ NumberTaken(ar_id, number)

(* The INSERT's constraints: CHECK(amount >= 0), unique (ar_id, invoice_number). *)
InvoiceInsertOk(ar_id, number, amount) ==
    /\ amount >= 0
    /\ ~ NumberTaken(ar_id, number)

invoices_create_result(s, client_id, invoice_number, check_in, check_out, rate) ==
    LET ar_id == session[s].ar
        nights == compute_nights(check_in, check_out)
    IN  IF ensure_scope(s) # "ok" THEN R(ensure_scope(s), 0)
        ELSE IF ~ ClientInAr(client_id, ar_id) THEN R("ClientNotFound", 0)
        ELSE IF Strip(invoice_number) = "" THEN R("NumberRequired", 0)
        ELSE IF NumberTaken(ar_id, Strip(invoice_number)) THEN R("NumberExists", 0)
        ELSE IF nights <= 0 THEN R("NightsInvalid", 0)
        ELSE IF ~ InvoiceInsertOk(ar_id, Strip(invoice_number), InvoiceAmount(rate, nights))
            THEN R("IntegrityError", 0)
        ELSE R("ok", 0)

InvoiceRow(ar_id, client_id, invoice_number, check_in, check_out, rate) ==
    [ar |-> ar_id, client |-> client_id, number |-> Strip(invoice_number),
     check_in |-> check_in, check_out |-> check_out,
     nights |-> compute_nights(check_in, check_out), rate |-> rate,
     amount |-> InvoiceAmount(rate, compute_nights(check_in, check_out)),
     status |-> "OPEN"]

invoices_create(s, client_id, invoice_number, check_in, check_out, rate) ==
    /\ invoices_create_result(s, client_id, invoice_number, check_in, check_out, rate).res = "ok"
    /\ Len(invoices) < MaxInvoices
    /\ invoices' = Append(invoices,
          InvoiceRow(session[s].ar, client_id, invoice_number, check_in, check_out, rate))
    /\ Done("invoices_create", s,
            [client |-> client_id, number |-> invoice_number, check_in |-> check_in,
             check_out |-> check_out, rate |-> rate])
    /\ UNCHANGED <<users, grants, session, clients, payments, nextPid, procs, dbLock>>

(* client_create_invoice: the same statements with client_id taken from the path. *)
client_create_invoice_result(s, client_id, invoice_number, check_in, check_out, rate) ==
    LET ar_id == session[s].ar
        nights == compute_nights(check_in, check_out)
    IN  IF ensure_scope(s) # "ok" THEN R(ensure_scope(s), 0)
        ELSE IF ~ ClientInAr(client_id, ar_id) THEN R("ClientNotFound", 0)
        ELSE IF Strip(invoice_number) = "" THEN R("NumberRequired", 0)
        ELSE IF NumberTaken(ar_id, Strip(invoice_number)) THEN R("NumberExists", 0)
        ELSE IF nights <= 0 THEN R("NightsInvalid", 0)
        ELSE IF ~ InvoiceInsertOk(ar_id, Strip(invoice_number), InvoiceAmount(rate, nights))
            THEN R("IntegrityError", 0)
        ELSE R("ok", 0)

(* Mutant: the client's form stores the amount without rounding it. *)
client_create_invoice_unrounded(s, client_id, invoice_number, check_in, check_out, rate) ==
    /\ client_create_invoice_result(s, client_id, invoice_number, check_in, check_out, rate).res = "ok"
    /\ Len(invoices) < MaxInvoices
    /\ invoices' = Append(invoices,
          [InvoiceRow(session[s].ar, client_id, invoice_number, check_in, check_out, rate)
              EXCEPT !.amount = rate * compute_nights(check_in, check_out)])
    /\ Done("client_create_invoice", s,
            [client |-> client_id, number |-> invoice_number, check_in |-> check_in,
             check_out |-> check_out, rate |-> rate])
    /\ UNCHANGED <<users, grants, session, clients, payments, nextPid, procs, dbLock>>

client_create_invoice(s, client_id, invoice_number, check_in, check_out, rate) ==
    /\ client_create_invoice_result(s, client_id, invoice_number, check_in, check_out, rate).res = "ok"
    /\ Len(invoices) < MaxInvoices
    /\ invoices' = Append(invoices,
          InvoiceRow(session[s].ar, client_id, invoice_number, check_in, check_out, rate))
    /\ Done("client_create_invoice", s,
            [client |-> client_id, number |-> invoice_number, check_in |-> check_in,
             check_out |-> check_out, rate |-> rate])
    /\ UNCHANGED <<users, grants, session, clients, payments, nextPid, procs, dbLock>>

(* Mutant: an invoice of another entity is answered differently from a    *)
(* missing one.                                                             *)
invoices_void_result_leak(s, invoice_id) ==
    IF ensure_scope(s) # "ok" THEN R(ensure_scope(s), 0)
    ELSE IF invoice_id \notin DOMAIN invoices THEN R("NotFound", 0)
    ELSE IF invoices[invoice_id].ar # session[s].ar THEN R("Forbidden", 0)
    ELSE R("ok", 0)

invoices_void_result(s, invoice_id) ==
    IF ensure_scope(s) # "ok" THEN R(ensure_scope(s), 0)
    ELSE IF InvoiceMissing(invoice_id, session[s].ar) THEN R("NotFound", 0)
    ELSE R("ok", 0)

(* Mutant: voiding a VOID invoice opens it again. *)
invoices_void_toggle(s, invoice_id) ==
    /\ invoices_void_result(s, invoice_id).res = "ok"
    /\ invoices' = [invoices EXCEPT ![invoice_id].status =
                       IF invoices[invoice_id].status = "VOID" THEN "OPEN" ELSE "VOID"]
    /\ Done("invoices_void", s, [invoice |-> invoice_id])
    /\ UNCHANGED <<users, grants, session, clients, payments, nextPid, procs, dbLock>>

(* Mutant: voiding also deletes the invoice's payments. *)
invoices_void_cascade(s, invoice_id) ==
    /\ invoices_void_result(s, invoice_id).res = "ok"
    /\ invoices' = [invoices EXCEPT ![invoice_id].status = "VOID"]
    /\ payments' = payments \ PaymentsOf(invoice_id)
    /\ Done("invoices_void", s, [invoice |-> invoice_id])
    /\ UNCHANGED <<users, grants, session, clients, nextPid, procs, dbLock>>

invoices_void(s, invoice_id) ==
    /\ invoices_void_result(s, invoice_id).res = "ok"
    /\ invoices' = [invoices EXCEPT ![invoice_id].status = "VOID"]
    /\ Done("invoices_void", s, [invoice |-> invoice_id])
    /\ UNCHANGED <<users, grants, session, clients, payments, nextPid, procs, dbLock>>

(* Mutant: the comparison also refuses an amount equal to the paid total. *)
BelowPaid_strict(amount, paid) == amount <= paid

(* "float(amount) + 1e-9 < paid" *)
BelowPaid(amount, paid) == amount < paid

invoices_update_amount_result(s, invoice_id, amount) ==
    IF ensure_scope(s) # "ok" THEN R(ensure_scope(s), 0)
    ELSE IF InvoiceMissing(invoice_id, session[s].ar) THEN R("NotFound", 0)
    ELSE IF IsVoid(invoices[invoice_id].status) THEN R("VoidInvoice", 0)
    ELSE IF BelowPaid(amount, paid_and_balance(invoice_id)[2])
        THEN R("BelowPaid", Format2(paid_and_balance(invoice_id)[2]))
    ELSE IF amount < 0 THEN R("IntegrityError", 0)
    ELSE R("ok", 0)

invoices_update_amount(s, invoice_id, amount) ==
    /\ invoices_update_amount_result(s, invoice_id, amount).res = "ok"
    /\ invoices' = [invoices EXCEPT ![invoice_id].amount = amount]
    /\ Done("invoices_update_amount", s, [invoice |-> invoice_id, amount |-> amount])
    /\ UNCHANGED <<users, grants, session, clients, payments, nextPid, procs, dbLock>>

----------------------------------------------------------------------------
(* Payment ledger. *)

(* "float(amount) > bal + 1e-9" *)
ExceedsBalance(amount, bal) == amount > bal

(* "others_sum + float(amount) > inv_amt + 1e-9" *)
ExceedsInvoiceAmount(others_sum, amount, inv_amt) == others_sum + amount > inv_amt

(* SUM(amount) over the invoice's payments other than payment_id. *)
OthersSum(invoice_id, payment_id) ==
    SumAmounts({p \in PaymentsOf(invoice_id) : p.id # payment_id})

(* Mutant: only the method's name is tested. *)
MethodResult_nameonly(method, check_number, check_date) ==
    IF NormMethod(method) \notin {"cash", "check"} THEN "MethodInvalid" ELSE "ok"

(* The method checks shared by payments_add and payments_update. *)
MethodResult(method, check_number, check_date) ==
    IF NormMethod(method) \notin {"cash", "check"} THEN "MethodInvalid"
    ELSE IF NormMethod(method) = "check" /\ (Falsy(check_number) \/ Falsy(check_date))
        THEN "CheckFieldsRequired"
    ELSE "ok"

payments_add_result(s, invoice_id, method, amount, check_number, check_date) ==
    IF ensure_scope(s) # "ok" THEN R(ensure_scope(s), 0)
    ELSE IF MethodResult(method, check_number, check_date) # "ok"
        THEN R(MethodResult(method, check_number, check_date), 0)
    ELSE IF InvoiceMissing(invoice_id, session[s].ar) THEN R("NotFound", 0)
    ELSE IF IsVoid(invoices[invoice_id].status) THEN R("VoidInvoice", 0)
    ELSE IF amount <= 0 THEN R("AmountNotPositive", 0)
    ELSE IF paid_and_balance(invoice_id)[3] <= 0 THEN R("AlreadyPaid", 0)
    ELSE IF ExceedsBalance(amount, paid_and_balance(invoice_id)[3])
        THEN R("ExceedsBalance", Format2(paid_and_balance(invoice_id)[3]))
    ELSE R("ok", 0)

payments_add(s, invoice_id, method, amount, check_number, check_date) ==
    /\ payments_add_result(s, invoice_id, method, amount, check_number, check_date).res = "ok"
    /\ nextPid <= MaxPayments
    /\ payments' = payments \cup
          {[id |-> nextPid, invoice |-> invoice_id, amount |-> amount,
            method |-> NormMethod(method), check_number |-> check_number,
            check_date |-> check_date]}
    /\ nextPid' = nextPid + 1
    /\ Done("payments_add", s, [invoice |-> invoice_id, amount |-> amount, method |-> method])
    /\ UNCHANGED <<users, grants, session, clients, invoices, procs, dbLock>>

payments_delete_result(s, payment_id) ==
    IF ensure_scope(s) # "ok" THEN R(ensure_scope(s), 0)
    ELSE IF PaymentMissing(payment_id, session[s].ar) THEN R("NotFound", 0)
    ELSE IF IsVoid(invoices[PaymentRow(payment_id).invoice].status) THEN R("VoidInvoice", 0)
    ELSE R("ok", 0)

payments_delete(s, payment_id) ==
    /\ payments_delete_result(s, payment_id).res = "ok"
    /\ payments' = {p \in payments : p.id # payment_id}
    /\ Done("payments_delete", s, [payment |-> payment_id])
    /\ UNCHANGED <<users, grants, session, clients, invoices, nextPid, procs, dbLock>>

payments_update_result(s, payment_id, method, amount, check_number, check_date) ==
    IF ensure_scope(s) # "ok" THEN R(ensure_scope(s), 0)
    ELSE IF MethodResult(method, check_number, check_date) # "ok"
        THEN R(MethodResult(method, check_number, check_date), 0)
    ELSE IF PaymentMissing(payment_id, session[s].ar) THEN R("NotFound", 0)
    ELSE IF amount <= 0 THEN R("AmountNotPositive", 0)
    ELSE IF IsVoid(invoices[PaymentRow(payment_id).invoice].status) THEN R("VoidInvoice", 0)
    ELSE IF ExceedsInvoiceAmount(OthersSum(PaymentRow(payment_id).invoice, payment_id), amount,
                                 invoices[PaymentRow(payment_id).invoice].amount)
        THEN R("ExceedsInvoiceAmount",
               Format2(invoices[PaymentRow(payment_id).invoice].amount
                           - OthersSum(PaymentRow(payment_id).invoice, payment_id)))
    ELSE R("ok", 0)

payments_update(s, payment_id, method, amount, check_number, check_date) ==
    /\ payments_update_result(s, payment_id, method, amount, check_number, check_date).res = "ok"
    /\ payments' = {p \in payments : p.id # payment_id} \cup
          {[id |-> payment_id, invoice |-> PaymentRow(payment_id).invoice, amount |-> amount,
            method |-> NormMethod(method), check_number |-> check_number,
            check_date |-> check_date]}
    /\ Done("payments_update", s, [payment |-> payment_id, amount |-> amount, method |-> method])
    /\ UNCHANGED <<users, grants, session, clients, invoices, nextPid, procs, dbLock>>

----------------------------------------------------------------------------
(* Read handlers.  A page, a search or an export is what it shows: the ids  *)
(* of the client, invoice and payment rows its queries select (a payment    *)
(* whose amount enters a SUM is shown).  The company, year and month        *)
(* filters only add conjuncts to the WHERE clause and are left out.         *)

Rows(c, i, p) == [clients |-> c, invoices |-> i, payments |-> p]
NoRows == Rows({}, {}, {})

(* The characters of the texts met in names, numbers and queries; a text  *)
(* not listed counts as one character of its own.                           *)
TextOf ==
    ("" :> <<>>) @@ ("A" :> <<"A">>) @@ ("a" :> <<"a">>) @@ ("B" :> <<"B">>)
    @@ ("b" :> <<"b">>) @@ ("n" :> <<"n">>) @@ ("N" :> <<"N">>) @@ ("o" :> <<"o">>)
    @@ ("AB" :> <<"A", "B">>) @@ ("Ann" :> <<"A", "n", "n">>) @@ ("Bo" :> <<"B", "o">>)
    @@ ("%" :> <<"%">>) @@ ("_" :> <<"_">>)
Chars(x) == IF x \in DOMAIN TextOf THEN TextOf[x] ELSE <<x>>

(* LIKE ignores the case of ASCII letters. *)
Fold(c) ==
    IF c = "A" THEN "a" ELSE IF c = "B" THEN "b" ELSE IF c = "N" THEN "n" ELSE c

(* SQLite's LIKE: "%" stands for any run of characters, "_" for one. *)
RECURSIVE LikeMatch(_, _)
LikeMatch(pat, txt) ==
    IF pat = <<>> THEN txt = <<>>
    ELSE IF Head(pat) = "%"
        THEN LikeMatch(Tail(pat), txt) \/ (txt # <<>> /\ LikeMatch(pat, Tail(txt)))
    ELSE IF txt = <<>> THEN FALSE
    ELSE IF Head(pat) = "_" \/ Fold(Head(pat)) = Fold(Head(txt))
        THEN LikeMatch(Tail(pat), Tail(txt))
    ELSE FALSE

(* x LIKE ? with the parameter f"%{q}%". *)
Like(q, x) == LikeMatch(<<"%">> \o Chars(q) \o <<"%">>, Chars(x))

get_clients(ar_id) == {c \in DOMAIN clients : clients[c].ar = ar_id}

(* Rows of "invoices i JOIN clients c LEFT JOIN payments p" for the invoices I. *)
JoinedRows(I) ==
    Rows({invoices[i].client : i \in {x \in I : invoices[x].client \in DOMAIN clients}},
         {i \in I : invoices[i].client \in DOMAIN clients},
         {p.id : p \in {x \in payments : x.invoice \in I}})

clients_list(s) ==
    IF ensure_scope(s) # "ok" THEN R(ensure_scope(s), NoRows)
    ELSE R("ok", Rows(get_clients(session[s].ar), {}, {}))

(* The ids of S in "ORDER BY i.id". *)
RECURSIVE SortedIds(_)
SortedIds(S) ==
    IF S = {} THEN <<>>
    ELSE LET m == CHOOSE x \in S : \A y \in S : x <= y
         IN  <<m>> \o SortedIds(S \ {m})

(* The sign of (SUM(p.amount) as SQLite adds the doubles) - (the exact      *)
(* sum): 0.1 + 0.7 gives 0.7999999999999999; every other total of the       *)
(* amounts met here is exact or is compared with a value cents away.        *)
SumError(S) ==
    IF Cardinality(S) = 2 /\ {p.amount : p \in S} = {100, 700} THEN -1 ELSE 0

(* One row of "GROUP BY i.id": paid is COALESCE(SUM(p.amount),0), balance   *)
(* is i.amount - paid, both on the grid; err is the sign of what the        *)
(* computed balance differs from it by.                                     *)
ListRow(i) ==
    [id |-> i, paid |-> PaidSum(i), balance |-> invoices[i].amount - PaidSum(i),
     err |-> 0 - SumError(PaymentsOf(i))]

(* r["balance"] > 0 *)
BalancePositive(r) == r.balance > 0 \/ (r.balance = 0 /\ r.err > 0)

(* The window chosen from the year and month parameters. *)
DateFilter(year, month) ==
    LET year_i == parse_opt_int(year)
        month_i == parse_opt_int(month)
    IN  IF Truthy(year_i) /\ Truthy(month_i) THEN month_range(year_i[1], month_i[1])
        ELSE IF Truthy(year_i) THEN year_range(year_i[1])
        ELSE [kind |-> "none"]

PassesDates(i, w) ==
    w.kind = "none" \/ overlap_sql(invoices[i].check_in, invoices[i].check_out, w)

(* "c.company = ?" with company.strip(); a NULL company equals nothing. *)
CompanyMatch(company, c) ==
    Falsy(company) \/ (clients[c].company # "None" /\ clients[c].company = Strip(company))

(* Mutant: VOID invoices are listed whatever include_void says. *)
VoidFilter_off(include_void, status) == TRUE

(* "if not include_void: i.status != 'VOID'" *)
VoidFilter(include_void, status) == include_void \/ status # "VOID"

(* The rows of the listing, in order (the date window is valid). *)
invoices_list_rows(s, outstanding, client_like, company, year, month, include_void) ==
    LET ar_id == session[s].ar
        w == DateFilter(year, month)
        sel == {i \in DOMAIN invoices :
                   /\ invoices[i].ar = ar_id
                   /\ invoices[i].client \in DOMAIN clients
                   /\ Falsy(client_like)
                        \/ Like(Strip(client_like), clients[invoices[i].client].name)
                   /\ CompanyMatch(company, invoices[i].client)
                   /\ PassesDates(i, w)
                   /\ VoidFilter(include_void, invoices[i].status)}
        rows == [k \in 1..Cardinality(sel) |-> ListRow(SortedIds(sel)[k])]
    IN  IF outstanding THEN SelectSeq(rows, BalancePositive) ELSE rows

invoices_list(s, outstanding, client_like, company, year, month, include_void) ==
    LET rows == invoices_list_rows(s, outstanding, client_like, company, year, month,
                                   include_void)
    IN  IF ensure_scope(s) # "ok" THEN R(ensure_scope(s), NoRows)
        ELSE IF DateFilter(year, month).kind = "ValueError" THEN R("ValueError", NoRows)
        ELSE R("ok", [JoinedRows({rows[k].id : k \in DOMAIN rows}) EXCEPT
                         !.clients = @ \cup get_clients(session[s].ar)])

invoice_detail(s, invoice_id) ==
    IF ensure_scope(s) # "ok" THEN R(ensure_scope(s), NoRows)
    ELSE IF InvoiceMissing(invoice_id, session[s].ar) THEN R("NotFound", NoRows)
    ELSE R("ok", Rows({invoices[invoice_id].client}, {invoice_id},
                      {p.id : p \in PaymentsOf(invoice_id)}))

invoice_audit(s, invoice_id) ==
    IF ensure_scope(s) # "ok" THEN R(ensure_scope(s), NoRows)
    ELSE IF InvoiceMissing(invoice_id, session[s].ar) THEN R("NotFound", NoRows)
    ELSE R("ok", Rows({}, {invoice_id}, {}))

invoice_print(s, invoice_id) ==
    IF ensure_scope(s) # "ok" THEN R(ensure_scope(s), NoRows)
    ELSE IF InvoiceMissing(invoice_id, session[s].ar) THEN R("NotFound", NoRows)
    ELSE R("ok", Rows({invoices[invoice_id].client}, {invoice_id},
                      {p.id : p \in PaymentsOf(invoice_id)}))

payments_for_invoice(s, invoice_id) ==
    IF ensure_scope(s) # "ok" THEN R(ensure_scope(s), NoRows)
    ELSE IF InvoiceMissing(invoice_id, session[s].ar) THEN R("NotFound", NoRows)
    ELSE R("ok", Rows({invoices[invoice_id].client}, {invoice_id},
                      {p.id : p \in PaymentsOf(invoice_id)}))

(* The invoices are selected by "WHERE i.client_id = ?" alone. *)
client_page(s, client_id, outstanding) ==
    LET sel == {i \in DOMAIN invoices : invoices[i].client = client_id}
        rows == IF outstanding THEN {i \in sel : invoices[i].amount - PaidSum(i) > 0} ELSE sel
    IN  IF ensure_scope(s) # "ok" THEN R(ensure_scope(s), NoRows)
        ELSE IF ~ ClientInAr(client_id, session[s].ar) THEN R("ClientNotFound", NoRows)
        ELSE R("ok", Rows({client_id}, rows, {p.id : p \in {x \in payments : x.invoice \in rows}}))

(* "(i.invoice_number LIKE ? OR c.name LIKE ?)" *)
TextMatch(q_clean, i) ==
    \/ Like(q_clean, invoices[i].number)
    \/ Like(q_clean, clients[invoices[i].client].name)

(* (q or "").strip() *)
QClean(q) == IF q = "None" THEN "" ELSE Strip(q)

search(s, q, company, year, month) ==
    LET ar_id == session[s].ar
        q_clean == QClean(q)
        exact == {i \in DOMAIN invoices : invoices[i].ar = ar_id /\ invoices[i].number = q_clean}
        w == DateFilter(year, month)
        sel == {i \in DOMAIN invoices :
                   /\ invoices[i].ar = ar_id
                   /\ invoices[i].client \in DOMAIN clients
                   /\ q_clean = "" \/ TextMatch(q_clean, i)
                   /\ CompanyMatch(company, invoices[i].client)
                   /\ PassesDates(i, w)}
    IN  IF ensure_scope(s) # "ok" THEN R(ensure_scope(s), NoRows)
        ELSE IF q_clean # "" /\ exact # {} THEN R("Redirect", Rows({}, exact, {}))
        ELSE IF w.kind = "ValueError" THEN R("ValueError", NoRows)
        ELSE R("ok", JoinedRows(sel))

export_invoices_csv(s) ==
    IF ensure_scope(s) # "ok" THEN R(ensure_scope(s), NoRows)
    ELSE R("ok", JoinedRows({i \in DOMAIN invoices : invoices[i].ar = session[s].ar}))

export_payments_csv(s) ==
    LET sel == {p \in payments : invoices[p.invoice].ar = session[s].ar}
    IN  IF ensure_scope(s) # "ok" THEN R(ensure_scope(s), NoRows)
        ELSE R("ok", Rows({invoices[p.invoice].client : p \in sel},
                          {p.invoice : p \in sel}, {p.id : p \in sel}))

----------------------------------------------------------------------------
(* payments_add and payments_update one statement at a time.  Each request  *)
(* runs in a worker thread on a connection of its own.  Its SELECTs run     *)
(* outside any transaction and see what is committed; sqlite3 opens the     *)
(* transaction at the INSERT or UPDATE, which takes the database's write    *)
(* lock, and the row is in the store for others from the commit on.         *)

add_select_invoice(p, s, invoice_id, method, amount) ==
    /\ procs[p].pc = "idle"
    /\ ensure_scope(s) = "ok"
    /\ MethodResult(method, "None", "None") = "ok"
    /\ ~ InvoiceMissing(invoice_id, session[s].ar)
    /\ ~ IsVoid(invoices[invoice_id].status)
    /\ procs' = [procs EXCEPT ![p] = [pc |-> "add_balance", sess |-> s, invoice |-> invoice_id,
                                      payment |-> 0, amount |-> amount, inv_amt |-> 0]]
    /\ UNCHANGED <<store, session, dbLock, last>>

(* paid_and_balance and the three comparisons on what it returned. *)
add_check(p) ==
    LET bal == paid_and_balance(procs[p].invoice)[3]
        amount == procs[p].amount
    IN  /\ procs[p].pc = "add_balance"
        /\ procs' = [procs EXCEPT ![p] =
                        IF amount <= 0 \/ bal <= 0 \/ ExceedsBalance(amount, bal)
                        THEN IdleProc
                        ELSE [@ EXCEPT !.pc = "add_insert"]]
        /\ UNCHANGED <<store, session, dbLock, last>>

add_insert(p) ==
    /\ procs[p].pc = "add_insert"
    /\ dbLock = 0
    /\ nextPid <= MaxPayments
    /\ dbLock' = p
    /\ procs' = [procs EXCEPT ![p].pc = "add_commit"]
    /\ UNCHANGED <<store, session, last>>

add_commit(p) ==
    /\ procs[p].pc = "add_commit"
    /\ dbLock = p
    /\ payments' = payments \cup
          {[id |-> nextPid, invoice |-> procs[p].invoice, amount |-> procs[p].amount,
            method |-> "cash", check_number |-> "None", check_date |-> "None"]}
    /\ nextPid' = nextPid + 1
    /\ dbLock' = 0
    /\ procs' = [procs EXCEPT ![p] = IdleProc]
    /\ Done("payments_add", procs[p].sess,
            [invoice |-> procs[p].invoice, amount |-> procs[p].amount, method |-> "cash"])
    /\ UNCHANGED <<users, grants, session, clients, invoices>>

upd_select_payment(p, s, payment_id, method, amount) ==
    /\ procs[p].pc = "idle"
    /\ ensure_scope(s) = "ok"
    /\ MethodResult(method, "None", "None") = "ok"
    /\ ~ PaymentMissing(payment_id, session[s].ar)
    /\ amount > 0
    /\ ~ IsVoid(invoices[PaymentRow(payment_id).invoice].status)
    /\ procs' = [procs EXCEPT ![p] =
                    [pc |-> "upd_others", sess |-> s, invoice |-> PaymentRow(payment_id).invoice,
                     payment |-> payment_id, amount |-> amount,
                     inv_amt |-> invoices[PaymentRow(payment_id).invoice].amount]]
    /\ UNCHANGED <<store, session, dbLock, last>>

(* The SUM over the other payments and the comparison with the amount read. *)
upd_check(p) ==
    /\ procs[p].pc = "upd_others"
    /\ procs' = [procs EXCEPT ![p] =
                    IF ExceedsInvoiceAmount(OthersSum(procs[p].invoice, procs[p].payment),
                                            procs[p].amount, procs[p].inv_amt)
                    THEN IdleProc
                    ELSE [@ EXCEPT !.pc = "upd_update"]]
    /\ UNCHANGED <<store, session, dbLock, last>>

upd_update(p) ==
    /\ procs[p].pc = "upd_update"
    /\ dbLock = 0
    /\ dbLock' = p
    /\ procs' = [procs EXCEPT ![p].pc = "upd_commit"]
    /\ UNCHANGED <<store, session, last>>

upd_commit(p) ==
    /\ procs[p].pc = "upd_commit"
    /\ dbLock = p
    /\ payments' = {IF q.id = procs[p].payment
                    THEN [q EXCEPT !.amount = procs[p].amount, !.method = "cash"]
                    ELSE q : q \in payments}
    /\ dbLock' = 0
    /\ procs' = [procs EXCEPT ![p] = IdleProc]
    /\ Done("payments_update", procs[p].sess,
            [payment |-> procs[p].payment, amount |-> procs[p].amount, method |-> "cash"])
    /\ UNCHANGED <<users, grants, session, clients, invoices, nextPid>>

----------------------------------------------------------------------------
(* invoices_create one statement at a time, under the same connection      *)
(* rules.  The SELECTs see what is committed; the INSERT takes the write    *)
(* lock and is checked against the table's constraints; a constraint that   *)
(* fails raises IntegrityError, which the handler does not catch: the       *)
(* connection is closed and nothing is stored.                              *)

crt_select(p, s, client_id, invoice_number, check_in, check_out, rate) ==
    /\ procs[p].pc = "idle"
    /\ ensure_scope(s) = "ok"
    /\ ClientInAr(client_id, session[s].ar)
    /\ Strip(invoice_number) # ""
    /\ ~ NumberTaken(session[s].ar, Strip(invoice_number))
    /\ compute_nights(check_in, check_out) > 0
    /\ procs' = [procs EXCEPT ![p] =
                    [pc |-> "crt_insert", sess |-> s, ar |-> session[s].ar,
                     client |-> client_id, number |-> invoice_number,
                     check_in |-> check_in, check_out |-> check_out, rate |-> rate]]
    /\ UNCHANGED <<store, session, dbLock, last>>

(* A request answered with an error: last records its kind. *)
Refused(op, s, kind) == last' = [op |-> op, sess |-> s, args |-> [error |-> kind]]

(* Mutant: the row is stored although the INSERT is answered with an error. *)
crt_insert_stored(p) ==
    /\ procs[p].pc = "crt_insert"
    /\ dbLock = 0
    /\ Len(invoices) < MaxInvoices
    /\ invoices' = Append(invoices,
          InvoiceRow(procs[p].ar, procs[p].client, procs[p].number, procs[p].check_in,
                     procs[p].check_out, procs[p].rate))
    /\ procs' = [procs EXCEPT ![p] = IdleProc]
    /\ IF InvoiceInsertOk(procs[p].ar, Strip(procs[p].number),
                          InvoiceAmount(procs[p].rate,
                                        compute_nights(procs[p].check_in, procs[p].check_out)))
       THEN Done("invoices_create", procs[p].sess, [client |-> procs[p].client])
       ELSE Refused("invoices_create", procs[p].sess, "IntegrityError")
    /\ UNCHANGED <<users, grants, session, clients, payments, nextPid, dbLock>>

crt_insert(p) ==
    /\ procs[p].pc = "crt_insert"
    /\ dbLock = 0
    /\ IF InvoiceInsertOk(procs[p].ar, Strip(procs[p].number),
                          InvoiceAmount(procs[p].rate,
                                        compute_nights(procs[p].check_in, procs[p].check_out)))
       THEN /\ Len(invoices) < MaxInvoices
            /\ dbLock' = p
            /\ procs' = [procs EXCEPT ![p].pc = "crt_commit"]
            /\ last' = last
       ELSE /\ dbLock' = dbLock
            /\ procs' = [procs EXCEPT ![p] = IdleProc]
            /\ Refused("invoices_create", procs[p].sess, "IntegrityError")
    /\ UNCHANGED <<store, session>>

crt_commit(p) ==
    /\ procs[p].pc = "crt_commit"
    /\ dbLock = p
    /\ invoices' = Append(invoices,
          InvoiceRow(procs[p].ar, procs[p].client, procs[p].number, procs[p].check_in,
                     procs[p].check_out, procs[p].rate))
    /\ dbLock' = 0
    /\ procs' = [procs EXCEPT ![p] = IdleProc]
    /\ Done("invoices_create", procs[p].sess,
            [client |-> procs[p].client, number |-> procs[p].number,
             check_in |-> procs[p].check_in, check_out |-> procs[p].check_out,
             rate |-> procs[p].rate])
    /\ UNCHANGED <<users, grants, session, clients, payments, nextPid>>

----------------------------------------------------------------------------
(* The ledger specification.  It starts where the first account (the       *)
(* admin, granted both entities) has logged in, which selects 'Motel 6',   *)
(* and each entity has one client.  Every handler runs to completion.      *)
(* The amounts are those of the specification's examples (300.00, 200.00,  *)
(* 150.00, 100.00), zero, and 0.004, an amount with a third decimal.       *)

LedgerNumbers == {"A", "B", ""}
LedgerCheckIns == {<<2024, 1, 10>>}
LedgerCheckOuts == {<<2024, 1, 10>>, <<2024, 1, 13>>}
LedgerRates == {100000}
LedgerAmends == {150000, 200000}
LedgerPays == {0, 4, 100000, 150000, 200000}
LedgerMethods == {<<"cash", "None", "None">>}

InitLedger ==
    /\ users = <<[email |-> "a@x", salt |-> "s1", hash |-> hash_password("pw", "s1"),
                  is_admin |-> TRUE]>>
    /\ grants = {<<1, 1>>, <<1, 2>>}
    /\ session = [s \in Sessions |-> IF s = 1 THEN [uid |-> 1, ar |-> 2] ELSE NoSession]
    /\ clients = <<[ar |-> 1, name |-> "Ann", company |-> "None"],
                  [ar |-> 2, name |-> "Ann", company |-> "None"]>>
    /\ invoices = <<>>
    /\ payments = {}
    /\ nextPid = 1
    /\ procs = [p \in Procs |-> IdleProc]
    /\ dbLock = 0
    /\ last = NoRequest

NextLedger ==
    \/ \E c \in DOMAIN clients, n \in LedgerNumbers, ci \in LedgerCheckIns,
          co \in LedgerCheckOuts, r \in LedgerRates : invoices_create(1, c, n, ci, co, r)
    \/ \E i \in 1..MaxInvoices : invoices_void(1, i)
    \/ \E i \in 1..MaxInvoices, a \in LedgerAmends : invoices_update_amount(1, i, a)
    \/ \E i \in 1..MaxInvoices, m \in LedgerMethods, a \in LedgerPays :
          payments_add(1, i, m[1], a, m[2], m[3])
    \/ \E k \in 1..MaxPayments : payments_delete(1, k)
    \/ \E k \in 1..MaxPayments, m \in LedgerMethods, a \in LedgerPays :
          payments_update(1, k, m[1], a, m[2], m[3])

SpecLedger == InitLedger /\ [][NextLedger]_vars

----------------------------------------------------------------------------
(* The creation specification: invoices are created through both forms,    *)
(* for either client, from stays of 0, 3, 6 and 24 nights and a stay that    *)
(* ends before it starts, at 100.00, at 33.334 (whose products need         *)
(* rounding) and at a negative rate.                                        *)

CreateNumbers == {"A", " A ", "B", "  "}
CreateCheckIns == {<<2024, 1, 10>>, <<2024, 1, 28>>}
CreateCheckOuts == {<<2024, 1, 10>>, <<2024, 1, 13>>, <<2024, 2, 3>>}
CreateRates == {100000, 33334, -100000}

NextCreate ==
    \/ \E c \in DOMAIN clients, n \in CreateNumbers, ci \in CreateCheckIns,
          co \in CreateCheckOuts, r \in CreateRates : invoices_create(1, c, n, ci, co, r)
    \/ \E c \in DOMAIN clients, n \in CreateNumbers, ci \in CreateCheckIns,
          co \in CreateCheckOuts, r \in CreateRates : client_create_invoice(1, c, n, ci, co, r)
    \/ \E i \in 1..MaxInvoices, m \in LedgerMethods : payments_add(1, i, m[1], 100000, m[2], m[3])

SpecCreate == InitLedger /\ [][NextCreate]_vars

----------------------------------------------------------------------------
(* The tenancy specification.  Two accounts exist: the admin (session 1,    *)
(* granted both entities) and a second user (session 2) granted 'Red Roof   *)
(* Inn' only, each logged in; each entity has one client.  The admin saves  *)
(* the access form with the second user's grant kept, moved or removed.     *)

TenantNumbers == {"A"}
TenantPays == {100000}
TenantAmends == {200000}
TenantForms == {{<<1, 1>>, <<1, 2>>, <<2, 1>>}, {<<1, 1>>, <<1, 2>>, <<2, 2>>},
                {<<1, 1>>, <<1, 2>>}}

InitTenant ==
    /\ users = <<[email |-> "a@x", salt |-> "s1", hash |-> hash_password("pw", "s1"),
                  is_admin |-> TRUE],
                 [email |-> "b@x", salt |-> "s1", hash |-> hash_password("pw", "s1"),
                  is_admin |-> FALSE]>>
    /\ grants = {<<1, 1>>, <<1, 2>>, <<2, 1>>}
    /\ session = [s \in Sessions |-> IF s = 1 THEN [uid |-> 1, ar |-> 2]
                                     ELSE [uid |-> 2, ar |-> 1]]
    /\ clients = <<[ar |-> 1, name |-> "Ann", company |-> "None"],
                  [ar |-> 2, name |-> "Ann", company |-> "None"]>>
    /\ invoices = <<>>
    /\ payments = {}
    /\ nextPid = 1
    /\ procs = [p \in Procs |-> IdleProc]
    /\ dbLock = 0
    /\ last = NoRequest

NextTenant ==
    \/ \E s \in Sessions, a \in ArIds : do_switch_ar(s, a)
    \/ \E f \in TenantForms : admin_users_save(1, f)
    \/ \E s \in Sessions, c \in DOMAIN clients, n \in TenantNumbers, ci \in LedgerCheckIns,
          co \in LedgerCheckOuts, r \in LedgerRates : invoices_create(s, c, n, ci, co, r)
    \/ \E s \in Sessions, i \in 1..MaxInvoices : invoices_void(s, i)
    \/ \E s \in Sessions, i \in 1..MaxInvoices, a \in TenantAmends :
          invoices_update_amount(s, i, a)
    \/ \E s \in Sessions, i \in 1..MaxInvoices, m \in LedgerMethods, a \in TenantPays :
          payments_add(s, i, m[1], a, m[2], m[3])
    \/ \E s \in Sessions, k \in 1..MaxPayments : payments_delete(s, k)
    \/ \E s \in Sessions, k \in 1..MaxPayments, m \in LedgerMethods, a \in TenantAmends :
          payments_update(s, k, m[1], a, m[2], m[3])

SpecTenant == InitTenant /\ [][NextTenant]_vars

----------------------------------------------------------------------------
(* The access specification, from construction: no account, no session,    *)
(* no client.  Visitors register, log in and out, switch entity, the admin  *)
(* saves the access form, and scoped sessions add clients.                  *)

RegEmails == {"a@x", " A@X ", "b@x"}
Passwords == {"pw", "bad"}
Salts == {"s1"}
SaveForms == {{<<1, 1>>, <<1, 2>>, <<2, 1>>}, {<<1, 2>>, <<2, 1>>, <<2, 2>>}, {<<1, 1>>}}
ClientNames == {"Ann", " Ann "}

Init ==
    /\ users = <<>>
    /\ grants = {}
    /\ session = [s \in Sessions |-> NoSession]
    /\ clients = <<>>
    /\ invoices = <<>>
    /\ payments = {}
    /\ nextPid = 1
    /\ procs = [p \in Procs |-> IdleProc]
    /\ dbLock = 0
    /\ last = NoRequest

Next ==
    \/ \E e \in RegEmails, s \in Salts : register(e, "pw", s)
    \/ \E s \in Sessions, e \in RegEmails, pw \in Passwords : login(s, e, pw)
    \/ \E s \in Sessions : logout(s)
    \/ \E s \in Sessions, a \in ArIds : do_switch_ar(s, a)
    \/ \E s \in Sessions, f \in SaveForms : admin_users_save(s, f)
    \/ \E s \in Sessions, n \in ClientNames : clients_add(s, n, "None")

Spec == Init /\ [][Next]_vars

----------------------------------------------------------------------------
(* The interleaved specification: one invoice of 300.00 is created, and    *)
(* two worker threads serve payment requests of session 1, statement by    *)
(* statement.  All amounts are whole cents and no amount is amended.        *)

ConcPays == {100000, 200000}

NextConc ==
    \/ /\ \A p \in Procs : procs[p].pc = "idle"
       /\ \E c \in DOMAIN clients, ci \in LedgerCheckIns, co \in LedgerCheckOuts,
             r \in LedgerRates : invoices_create(1, c, "A", ci, co, r)
    \/ \E p \in Procs, i \in 1..MaxInvoices, a \in ConcPays :
          add_select_invoice(p, 1, i, "cash", a)
    \/ \E p \in Procs : add_check(p)
    \/ \E p \in Procs : add_insert(p)
    \/ \E p \in Procs : add_commit(p)
    \/ \E p \in Procs, k \in 1..MaxPayments, a \in ConcPays :
          upd_select_payment(p, 1, k, "cash", a)
    \/ \E p \in Procs : upd_check(p)
    \/ \E p \in Procs : upd_update(p)
    \/ \E p \in Procs : upd_commit(p)

SpecConc == InitLedger /\ [][NextConc]_vars

----------------------------------------------------------------------------
(* The interleaved creation specification: the two sessions of the tenancy *)
(* specification, one in each entity, send create requests that two worker *)
(* threads serve statement by statement.                                    *)

ConcNumbers == {"A", " A ", "B", "  "}

NextConcCreate ==
    \/ \E p \in Procs, s \in Sessions, c \in DOMAIN clients, n \in ConcNumbers,
          ci \in LedgerCheckIns, co \in LedgerCheckOuts, r \in LedgerRates :
          crt_select(p, s, c, n, ci, co, r)
    \/ \E p \in Procs : crt_insert(p)
    \/ \E p \in Procs : crt_commit(p)

SpecConcCreate == InitTenant /\ [][NextConcCreate]_vars

----------------------------------------------------------------------------
(* The error specification: every request is a step, accepted or not.  Each *)
(* handler returns its error responses before its first INSERT, UPDATE or   *)
(* DELETE, or the INSERT itself raises; "finally: conn.close()" then closes *)
(* the connection without a commit.  Creation is served statement by        *)
(* statement, so that a constraint can fail at the INSERT.                  *)

(* Mutant: a refused request also drops the session. *)
ErrorReturn_clears(op, s, r) ==
    /\ r.res # "ok"
    /\ Refused(op, s, r.res)
    /\ session' = [session EXCEPT ![s] = NoSession]
    /\ UNCHANGED <<store, procs, dbLock>>

ErrorReturn(op, s, r) ==
    /\ r.res # "ok"
    /\ Refused(op, s, r.res)
    /\ UNCHANGED <<store, session, procs, dbLock>>

ErrNumbers == {"A", "  "}
ErrNames == {"Ann", "Bob"}
ErrRates == {100000, -100000}
ErrPays == {100000, 400000, 0}
ErrAmends == {200000, 50000, -100000}
ErrMethods == {<<"cash", "None", "None">>, <<"card", "None", "None">>}

InitErrors ==
    /\ users = <<[email |-> "a@x", salt |-> "s1", hash |-> hash_password("pw", "s1"),
                  is_admin |-> TRUE],
                 [email |-> "b@x", salt |-> "s1", hash |-> hash_password("pw", "s1"),
                  is_admin |-> FALSE]>>
    /\ grants = {<<1, 1>>, <<1, 2>>, <<2, 1>>}
    /\ session = [s \in Sessions |-> IF s = 1 THEN [uid |-> 1, ar |-> 1]
                                     ELSE [uid |-> 2, ar |-> 1]]
    /\ clients = <<[ar |-> 1, name |-> "Ann", company |-> "None"]>>
    /\ invoices = <<>>
    /\ payments = {}
    /\ nextPid = 1
    /\ procs = [p \in Procs |-> IdleProc]
    /\ dbLock = 0
    /\ last = NoRequest

NextErrors ==
    \/ \E p \in Procs, c \in DOMAIN clients, n \in ErrNumbers, ci \in LedgerCheckIns,
          co \in LedgerCheckOuts, r \in ErrRates : crt_select(p, p, c, n, ci, co, r)
    \/ \E p \in Procs : crt_insert(p)
    \/ \E p \in Procs : crt_commit(p)
    \/ \E c \in 1..(Len(clients) + 1), n \in ErrNumbers, ci \in LedgerCheckIns,
          co \in LedgerCheckOuts, r \in ErrRates :
          ErrorReturn("invoices_create", 1, invoices_create_result(1, c, n, ci, co, r))
    \/ \E c \in 1..(Len(clients) + 1), n \in ErrNumbers, ci \in LedgerCheckIns,
          co \in LedgerCheckOuts, r \in ErrRates :
          ErrorReturn("client_create_invoice", 1,
                      client_create_invoice_result(1, c, n, ci, co, r))
    \/ \E n \in ErrNames : clients_add(1, n, "None")
    \/ \E n \in ErrNames : ErrorReturn("clients_add", 1, clients_add_result(1, n))
    \/ \E i \in 1..MaxInvoices : invoices_void(1, i)
    \/ \E i \in 1..(Len(invoices) + 1) :
          ErrorReturn("invoices_void", 1, invoices_void_result(1, i))
    \/ \E i \in 1..MaxInvoices, a \in ErrAmends : invoices_update_amount(1, i, a)
    \/ \E i \in 1..(Len(invoices) + 1), a \in ErrAmends :
          ErrorReturn("invoices_update_amount", 1, invoices_update_amount_result(1, i, a))
    \/ \E i \in 1..MaxInvoices, m \in ErrMethods, a \in ErrPays :
          payments_add(1, i, m[1], a, m[2], m[3])
    \/ \E i \in 1..(Len(invoices) + 1), m \in ErrMethods, a \in ErrPays :
          ErrorReturn("payments_add", 1, payments_add_result(1, i, m[1], a, m[2], m[3]))
    \/ \E k \in 1..MaxPayments : payments_delete(1, k)
    \/ \E k \in 1..nextPid : ErrorReturn("payments_delete", 1, payments_delete_result(1, k))
    \/ \E k \in 1..MaxPayments, m \in ErrMethods, a \in ErrPays :
          payments_update(1, k, m[1], a, m[2], m[3])
    \/ \E k \in 1..nextPid, m \in ErrMethods, a \in ErrPays :
          ErrorReturn("payments_update", 1,
                      payments_update_result(1, k, m[1], a, m[2], m[3]))

SpecErrors == InitErrors /\ [][NextErrors]_vars

----------------------------------------------------------------------------
(* The listing specification: one admin with a session in each entity; the  *)
(* stays created straddle the ends of months and of a year, one of them     *)
(* sent without leading zeros, and the payments are of cents.               *)

(* <<session, invoice_number, check_in, check_out, rate>> *)
ListCreates ==
    {<<1, "A", <<2024, 1, 28>>, <<2024, 2, 3>>, 100000>>,
     <<1, "AB", <<2024, 1, 28, "u">>, <<2024, 2, 3, "u">>, 100000>>,
     <<1, "A", <<2024, 2, 1>>, <<2024, 2, 3>>, 400>>,
     <<1, "AB", <<2024, 1, 28>>, <<2024, 2, 1>>, 100000>>,
     <<1, "AB", <<2024, 9, 30, "u">>, <<2024, 10, 2, "u">>, 100000>>,
     <<2, "A", <<2024, 1, 28>>, <<2024, 2, 3>>, 100000>>}
ListPays == {100, 700}

InitList ==
    /\ users = <<[email |-> "a@x", salt |-> "s1", hash |-> hash_password("pw", "s1"),
                  is_admin |-> TRUE]>>
    /\ grants = {<<1, 1>>, <<1, 2>>}
    /\ session = [s \in Sessions |-> [uid |-> 1, ar |-> s]]
    /\ clients = <<[ar |-> 1, name |-> "Ann", company |-> "Acme"],
                  [ar |-> 2, name |-> "Bo", company |-> "None"]>>
    /\ invoices = <<>>
    /\ payments = {}
    /\ nextPid = 1
    /\ procs = [p \in Procs |-> IdleProc]
    /\ dbLock = 0
    /\ last = NoRequest

NextList ==
    \/ \E c \in DOMAIN clients, x \in ListCreates :
          invoices_create(x[1], c, x[2], x[3], x[4], x[5])
    \/ \E i \in 1..MaxInvoices : invoices_void(1, i)
    \/ \E i \in 1..MaxInvoices, a \in ListPays :
          payments_add(1, i, "cash", a, "None", "None")

SpecList == InitList /\ [][NextList]_vars

----------------------------------------------------------------------------
(* The session specification: two registered users, the second without any  *)
(* grant until the admin saves one; logins, logouts and switches next to    *)
(* ledger, admin and read requests, refused ones included.                  *)

LoginEmails == {"a@x", " A@X ", "b@x", "c@x"}
SessionForms == {{<<1, 1>>, <<1, 2>>, <<2, 2>>}, {<<1, 1>>, <<1, 2>>}}
ReadRequests == {"invoices_list", "search", "export_invoices_csv", "export_payments_csv"}

(* The result of a GET handler that reads only. *)
ReadResult(op, s) ==
    IF op = "invoices_list"
        THEN invoices_list(s, FALSE, "None", "None", "None", "None", FALSE)
    ELSE IF op = "search" THEN search(s, "A", "None", "None", "None")
    ELSE IF op = "export_invoices_csv" THEN export_invoices_csv(s)
    ELSE export_payments_csv(s)

(* A GET request: the handler reads the session and the store and writes    *)
(* neither. *)
Get(op, s) ==
    /\ Done(op, s, [res |-> ReadResult(op, s).res])
    /\ UNCHANGED <<store, session, procs, dbLock>>

InitSession ==
    /\ users = <<[email |-> "a@x", salt |-> "s1", hash |-> hash_password("pw", "s1"),
                  is_admin |-> TRUE],
                 [email |-> "b@x", salt |-> "s1", hash |-> hash_password("pw", "s1"),
                  is_admin |-> FALSE]>>
    /\ grants = {<<1, 1>>, <<1, 2>>}
    /\ session = [s \in Sessions |-> NoSession]
    /\ clients = <<[ar |-> 1, name |-> "Ann", company |-> "None"]>>
    /\ invoices = <<>>
    /\ payments = {}
    /\ nextPid = 1
    /\ procs = [p \in Procs |-> IdleProc]
    /\ dbLock = 0
    /\ last = NoRequest

NextSession ==
    \/ \E s \in Sessions, e \in LoginEmails, pw \in Passwords : login(s, e, pw)
    \/ \E s \in Sessions, e \in LoginEmails, pw \in Passwords :
          ErrorReturn("login", s, login_result(e, pw))
    \/ \E s \in Sessions : logout(s)
    \/ \E s \in Sessions, a \in ArIds : do_switch_ar(s, a)
    \/ \E s \in Sessions, a \in ArIds :
          ErrorReturn("do_switch_ar", s, do_switch_ar_result(s, a))
    \/ \E s \in Sessions, f \in SessionForms : admin_users_save(s, f)
    \/ \E s \in Sessions : ErrorReturn("admin_users_save", s, admin_users_save_result(s))
    \/ \E s \in Sessions :
          invoices_create(s, 1, "A", <<2024, 1, 28>>, <<2024, 2, 3>>, 100000)
    \/ \E s \in Sessions :
          ErrorReturn("invoices_create", s,
                      invoices_create_result(s, 1, "A", <<2024, 1, 28>>, <<2024, 2, 3>>,
                                             100000))
    \/ \E s \in Sessions : invoices_void(s, 1)
    \/ \E s \in Sessions : ErrorReturn("invoices_void", s, invoices_void_result(s, 1))
    \/ \E s \in Sessions : payments_add(s, 1, "cash", 400000, "None", "None")
    \/ \E s \in Sessions :
          ErrorReturn("payments_add", s,
                      payments_add_result(s, 1, "cash", 400000, "None", "None"))
    \/ \E s \in Sessions, op \in ReadRequests : Get(op, s)

SpecSession == InitSession /\ [][NextSession]_vars

----------------------------------------------------------------------------
(* The payment-form specification: one invoice of 300.00 and payments sent  *)
(* with every kind of method field, accepted or refused.                    *)

(* <<method, check_number, check_date>> *)
MethodForms ==
    {<<"cash", "None", "None">>, <<" Check ", "77", "2024-01-15">>,
     <<"check", "", "2024-01-15">>, <<"CHECK", "77", "None">>,
     <<"card", "77", "2024-01-15">>, <<"", "None", "None">>}
MethodPays == {100000, 200000, 0}

NextMethod ==
    \/ invoices_create(1, 1, "A", <<2024, 1, 10>>, <<2024, 1, 13>>, 100000)
    \/ \E i \in 1..MaxInvoices, m \in MethodForms, a \in MethodPays :
          payments_add(1, i, m[1], a, m[2], m[3])
    \/ \E i \in 1..(Len(invoices) + 1), m \in MethodForms, a \in MethodPays :
          ErrorReturn("payments_add", 1, payments_add_result(1, i, m[1], a, m[2], m[3]))
    \/ \E k \in 1..MaxPayments, m \in MethodForms, a \in MethodPays :
          payments_update(1, k, m[1], a, m[2], m[3])
    \/ \E k \in 1..nextPid, m \in MethodForms, a \in MethodPays :
          ErrorReturn("payments_update", 1, payments_update_result(1, k, m[1], a, m[2], m[3]))
    \/ \E k \in 1..MaxPayments : payments_delete(1, k)

SpecMethod == InitErrors /\ [][NextMethod]_vars

----------------------------------------------------------------------------
(* invoices_update_amount, invoices_void and payments_delete one statement  *)
(* at a time, under the connection rules of the payment requests: the       *)
(* SELECTs see what is committed, the UPDATE or DELETE takes the write      *)
(* lock, and the change is in the store from the commit on.                 *)

amd_select(p, s, invoice_id, amount) ==
    /\ procs[p].pc = "idle"
    /\ ensure_scope(s) = "ok"
    /\ ~ InvoiceMissing(invoice_id, session[s].ar)
    /\ ~ IsVoid(invoices[invoice_id].status)
    /\ procs' = [procs EXCEPT ![p] = [pc |-> "amd_paid", sess |-> s, invoice |-> invoice_id,
                                      payment |-> 0, amount |-> amount, inv_amt |-> 0]]
    /\ UNCHANGED <<store, session, dbLock, last>>

(* paid_and_balance and the comparison of the new amount with the paid      *)
(* total it returned. *)
amd_check(p) ==
    /\ procs[p].pc = "amd_paid"
    /\ procs' = [procs EXCEPT ![p] =
                    IF BelowPaid(procs[p].amount, paid_and_balance(procs[p].invoice)[2])
                    THEN IdleProc
                    ELSE [@ EXCEPT !.pc = "amd_update"]]
    /\ UNCHANGED <<store, session, dbLock, last>>

(* The UPDATE, refused by CHECK(amount >= 0) for a negative amount. *)
amd_update(p) ==
    /\ procs[p].pc = "amd_update"
    /\ dbLock = 0
    /\ IF procs[p].amount < 0
       THEN dbLock' = dbLock /\ procs' = [procs EXCEPT ![p] = IdleProc]
       ELSE dbLock' = p /\ procs' = [procs EXCEPT ![p].pc = "amd_commit"]
    /\ UNCHANGED <<store, session, last>>

amd_commit(p) ==
    /\ procs[p].pc = "amd_commit"
    /\ dbLock = p
    /\ invoices' = [invoices EXCEPT ![procs[p].invoice].amount = procs[p].amount]
    /\ dbLock' = 0
    /\ procs' = [procs EXCEPT ![p] = IdleProc]
    /\ Done("invoices_update_amount", procs[p].sess,
            [invoice |-> procs[p].invoice, amount |-> procs[p].amount])
    /\ UNCHANGED <<users, grants, session, clients, payments, nextPid>>

vd_select(p, s, invoice_id) ==
    /\ procs[p].pc = "idle"
    /\ ensure_scope(s) = "ok"
    /\ ~ InvoiceMissing(invoice_id, session[s].ar)
    /\ procs' = [procs EXCEPT ![p] = [pc |-> "vd_update", sess |-> s, invoice |-> invoice_id,
                                      payment |-> 0, amount |-> 0, inv_amt |-> 0]]
    /\ UNCHANGED <<store, session, dbLock, last>>

vd_update(p) ==
    /\ procs[p].pc = "vd_update"
    /\ dbLock = 0
    /\ dbLock' = p
    /\ procs' = [procs EXCEPT ![p].pc = "vd_commit"]
    /\ UNCHANGED <<store, session, last>>

vd_commit(p) ==
    /\ procs[p].pc = "vd_commit"
    /\ dbLock = p
    /\ invoices' = [invoices EXCEPT ![procs[p].invoice].status = "VOID"]
    /\ dbLock' = 0
    /\ procs' = [procs EXCEPT ![p] = IdleProc]
    /\ Done("invoices_void", procs[p].sess, [invoice |-> procs[p].invoice])
    /\ UNCHANGED <<users, grants, session, clients, payments, nextPid>>

del_select(p, s, payment_id) ==
    /\ procs[p].pc = "idle"
    /\ ensure_scope(s) = "ok"
    /\ ~ PaymentMissing(payment_id, session[s].ar)
    /\ ~ IsVoid(invoices[PaymentRow(payment_id).invoice].status)
    /\ procs' = [procs EXCEPT ![p] =
                    [pc |-> "del_delete", sess |-> s, invoice |-> PaymentRow(payment_id).invoice,
                     payment |-> payment_id, amount |-> 0, inv_amt |-> 0]]
    /\ UNCHANGED <<store, session, dbLock, last>>

del_delete(p) ==
    /\ procs[p].pc = "del_delete"
    /\ dbLock = 0
    /\ dbLock' = p
    /\ procs' = [procs EXCEPT ![p].pc = "del_commit"]
    /\ UNCHANGED <<store, session, last>>

del_commit(p) ==
    /\ procs[p].pc = "del_commit"
    /\ dbLock = p
    /\ payments' = {q \in payments : q.id # procs[p].payment}
    /\ dbLock' = 0
    /\ procs' = [procs EXCEPT ![p] = IdleProc]
    /\ Done("payments_delete", procs[p].sess, [payment |-> procs[p].payment])
    /\ UNCHANGED <<users, grants, session, clients, invoices, nextPid>>

----------------------------------------------------------------------------
(* The race specification: the admin and a second user, both granted 'Red   *)
(* Roof Inn' and both working in it, on one invoice of 300.00.  Thread 1    *)
(* serves the admin's amendments, voids and saves of the access form (the   *)
(* second user's grant removed or given back), thread 2 the second user's   *)
(* payment requests, statement by statement.                                *)

RaceAmends == {100000}
RacePays == {200000, 300000}
RaceForms == {{<<1, 1>>, <<1, 2>>}, {<<1, 1>>, <<1, 2>>, <<2, 1>>}}

InitRace ==
    /\ users = <<[email |-> "a@x", salt |-> "s1", hash |-> hash_password("pw", "s1"),
                  is_admin |-> TRUE],
                 [email |-> "b@x", salt |-> "s1", hash |-> hash_password("pw", "s1"),
                  is_admin |-> FALSE]>>
    /\ grants = {<<1, 1>>, <<1, 2>>, <<2, 1>>}
    /\ session = [s \in Sessions |-> [uid |-> s, ar |-> 1]]
    /\ clients = <<[ar |-> 1, name |-> "Ann", company |-> "None"]>>
    /\ invoices = <<>>
    /\ payments = {}
    /\ nextPid = 1
    /\ procs = [p \in Procs |-> IdleProc]
    /\ dbLock = 0
    /\ last = NoRequest

NextRace ==
    \/ /\ \A p \in Procs : procs[p].pc = "idle"
       /\ invoices_create(1, 1, "A", <<2024, 1, 10>>, <<2024, 1, 13>>, 100000)
    \/ /\ dbLock = 0
       /\ \E f \in RaceForms : admin_users_save(1, f)
    \/ \E i \in 1..MaxInvoices, a \in RaceAmends : amd_select(1, 1, i, a)
    \/ \E p \in Procs : amd_check(p)
    \/ \E p \in Procs : amd_update(p)
    \/ \E p \in Procs : amd_commit(p)
    \/ \E i \in 1..MaxInvoices : vd_select(1, 1, i)
    \/ \E p \in Procs : vd_update(p)
    \/ \E p \in Procs : vd_commit(p)
    \/ \E i \in 1..MaxInvoices, a \in RacePays : add_select_invoice(2, 2, i, "cash", a)
    \/ \E p \in Procs : add_check(p)
    \/ \E p \in Procs : add_insert(p)
    \/ \E p \in Procs : add_commit(p)
    \/ \E k \in 1..MaxPayments, a \in RacePays : upd_select_payment(2, 2, k, "cash", a)
    \/ \E p \in Procs : upd_check(p)
    \/ \E p \in Procs : upd_update(p)
    \/ \E p \in Procs : upd_commit(p)
    \/ \E k \in 1..MaxPayments : del_select(2, 2, k)
    \/ \E p \in Procs : del_delete(p)
    \/ \E p \in Procs : del_commit(p)

SpecRace == InitRace /\ [][NextRace]_vars

----------------------------------------------------------------------------
(* register one statement at a time: the COUNT runs outside any             *)
(* transaction, the INSERT of the user takes the write lock and is checked  *)
(* against the UNIQUE email (the IntegrityError is caught and answered),    *)
(* and the user and its grants are in the store from the commit on.         *)

reg_count(p, email, password, salt) ==
    /\ procs[p].pc = "idle"
    /\ procs' = [procs EXCEPT ![p] = [pc |-> "reg_insert", sess |-> 0, email |-> email,
                                      password |-> password, salt |-> salt,
                                      exists |-> Len(users)]]
    /\ UNCHANGED <<store, session, dbLock, last>>

reg_insert(p) ==
    /\ procs[p].pc = "reg_insert"
    /\ dbLock = 0
    /\ IF register_result(procs[p].email).res # "ok"
       THEN /\ dbLock' = dbLock
            /\ procs' = [procs EXCEPT ![p] = IdleProc]
            /\ Refused("register", 0, "EmailTaken")
       ELSE /\ Len(users) < MaxUsers
            /\ dbLock' = p
            /\ procs' = [procs EXCEPT ![p].pc = "reg_commit"]
            /\ last' = last
    /\ UNCHANGED <<store, session>>

reg_commit(p) ==
    LET uid == Len(users) + 1
        row == [email |-> Lower(Strip(procs[p].email)), salt |-> procs[p].salt,
                hash |-> hash_password(procs[p].password, procs[p].salt),
                is_admin |-> (procs[p].exists = 0)]
    IN  /\ procs[p].pc = "reg_commit"
        /\ dbLock = p
        /\ users' = Append(users, row)
        /\ grants' = IF procs[p].exists = 0 THEN grants \cup {<<uid, a>> : a \in ArIds}
                     ELSE grants
        /\ dbLock' = 0
        /\ procs' = [procs EXCEPT ![p] = IdleProc]
        /\ Done("register", 0, [email |-> procs[p].email])
        /\ UNCHANGED <<session, clients, invoices, payments, nextPid>>

(* The registration specification: from construction, two worker threads    *)
(* serve registrations, and visitors log in and out.                        *)
NextReg ==
    \/ \E p \in Procs, e \in RegEmails, s \in Salts : reg_count(p, e, "pw", s)
    \/ \E p \in Procs : reg_insert(p)
    \/ \E p \in Procs : reg_commit(p)
    \/ \E e \in RegEmails : login(1, e, "pw")
    \/ logout(1)

SpecReg == Init /\ [][NextReg]_vars

----------------------------------------------------------------------------
(* Claims of the ledger specification.  A claim speaks of the requests a   *)
(* scoped session can send: InScope(s, i) says invoice i is one of them.   *)

InScope(s, i) == ensure_scope(s) = "ok" /\ i \in DOMAIN invoices /\ invoices[i].ar = session[s].ar
Open(i) == invoices[i].status # "VOID"
Void(i) == invoices[i].status = "VOID"
Balance(i) == Round2(invoices[i].amount - PaidSum(i))
AmendInputs == LedgerAmends \cup {100000, 300000}

(* C1: after any sequence of completed createInvoice, amendAmount,         *)
(* voidInvoice, addPayment, updatePayment and deletePayment requests, with  *)
(* amounts of any number of decimals, every invoice's payments sum to at    *)
(* most its amount (tolerance 1e-9).                                        *)
C1_PaidWithinAmount == \A i \in DOMAIN invoices : PaidSum(i) <= invoices[i].amount

(* C2: voiding is terminal.  A VOID invoice stays VOID; addPayment and      *)
(* amendAmount on it, and updatePayment and deletePayment on its payments,  *)
(* are rejected; no step changes its amount or its set of payments.         *)
C2_VoidTerminal ==
    /\ [](\A s \in Sessions, i \in DOMAIN invoices : (InScope(s, i) /\ Void(i)) =>
            /\ \A m \in LedgerMethods, a \in LedgerPays :
                  payments_add_result(s, i, m[1], a, m[2], m[3]).res # "ok"
            /\ \A a \in AmendInputs : invoices_update_amount_result(s, i, a).res # "ok"
            /\ \A p \in PaymentsOf(i) :
                  /\ payments_delete_result(s, p.id).res # "ok"
                  /\ \A m \in LedgerMethods, a \in LedgerPays :
                        payments_update_result(s, p.id, m[1], a, m[2], m[3]).res # "ok")
    /\ [][\A i \in DOMAIN invoices : Void(i) =>
            /\ invoices'[i].status = "VOID"
            /\ invoices'[i].amount = invoices[i].amount
            /\ {p \in payments' : p.invoice = i} = PaymentsOf(i)]_vars

(* A VOID invoice that has a payment and an unpaid balance, on which a      *)
(* further payment is refused as VOID.                                      *)
C2_Witness ==
    \E i \in DOMAIN invoices :
        /\ Void(i) /\ PaymentsOf(i) # {} /\ Balance(i) > 0
        /\ payments_add_result(1, i, "cash", 100000, "None", "None").res = "VoidInvoice"
        /\ \E p \in PaymentsOf(i) : payments_delete_result(1, p.id).res = "VoidInvoice"

(* C6: addPayment on an in-scope OPEN invoice with a valid method succeeds  *)
(* iff amount > 0, balance > 0 and amount <= balance; it fails with a       *)
(* validation error when amount <= 0, AlreadyPaid when balance <= 0 and     *)
(* ExceedsBalance when amount > balance, where the balance is the invoice   *)
(* amount minus the sum of its payments; the balance reported with          *)
(* ExceedsBalance is that balance to 2 decimals.                            *)
C6_AddPaymentGuard ==
    \A s \in Sessions, i \in DOMAIN invoices, m \in LedgerMethods, a \in LedgerPays :
        (InScope(s, i) /\ Open(i)) =>
            LET r == payments_add_result(s, i, m[1], a, m[2], m[3])
                bal == invoices[i].amount - PaidSum(i)
            IN  /\ r.res = "ok" <=> (a > 0 /\ bal > 0 /\ a <= bal)
                /\ a <= 0 => r.res = "AmountNotPositive"
                /\ (a > 0 /\ bal <= 0) => r.res = "AlreadyPaid"
                /\ (a > 0 /\ bal > 0 /\ a > bal) => r = R("ExceedsBalance", Round2(bal))

(* C7: updatePayment on a payment of an in-scope OPEN invoice, amount > 0,  *)
(* valid method, succeeds iff the other payments of the invoice plus the    *)
(* amount are at most the invoice amount; otherwise it fails                *)
(* ExceedsInvoiceAmount and reports, as the maximum allowed, the invoice    *)
(* amount minus the others' sum.  A payment row changes only by such an     *)
(* update of that very payment, and the update changes no other row.        *)
C7_UpdatePaymentGuard ==
    /\ [](\A s \in Sessions, p \in payments, m \in LedgerMethods, a \in LedgerPays :
            (InScope(s, p.invoice) /\ Open(p.invoice) /\ a > 0) =>
                LET r == payments_update_result(s, p.id, m[1], a, m[2], m[3])
                    others == SumAmounts(PaymentsOf(p.invoice) \ {p})
                    amt == invoices[p.invoice].amount
                IN  /\ r.res = "ok" <=> others + a <= amt
                    /\ r.res # "ok" => r = R("ExceedsInvoiceAmount", amt - others))
    /\ [][/\ \A p \in payments, q \in payments' : (p.id = q.id /\ p # q) =>
               /\ last'.op = "payments_update" /\ last'.args.payment = p.id
               /\ q.amount = last'.args.amount /\ q.invoice = p.invoice
               /\ SumAmounts(PaymentsOf(p.invoice) \ {p}) + q.amount
                     <= invoices[p.invoice].amount
          /\ last'.op = "payments_update" =>
               /\ invoices' = invoices
               /\ {p \in payments' : p.id # last'.args.payment}
                     = {p \in payments : p.id # last'.args.payment}
               /\ \E q \in payments' : q.id = last'.args.payment
                                       /\ q.amount = last'.args.amount]_vars

(* C8: amendAmount on an in-scope invoice succeeds iff the invoice is not   *)
(* VOID and the new amount is at least the total paid; it fails VoidInvoice *)
(* on a VOID invoice and BelowPaid below the paid total.  An invoice's      *)
(* amount changes only by such an amendment, never to less than is paid.    *)
C8_AmendGuard ==
    /\ [](\A s \in Sessions, i \in DOMAIN invoices, a \in AmendInputs : InScope(s, i) =>
            LET r == invoices_update_amount_result(s, i, a)
            IN  /\ r.res = "ok" <=> (Open(i) /\ a >= PaidSum(i))
                /\ Void(i) => r.res = "VoidInvoice"
                /\ (Open(i) /\ a < PaidSum(i)) => r.res = "BelowPaid")
    /\ [][/\ \A i \in DOMAIN invoices : invoices'[i].amount # invoices[i].amount =>
               /\ last'.op = "invoices_update_amount" /\ last'.args.invoice = i
               /\ Open(i)
               /\ invoices'[i].amount >= PaidSum(i)
          /\ last'.op = "invoices_update_amount" =>
               /\ invoices' = [invoices EXCEPT ![last'.args.invoice].amount = last'.args.amount]
               /\ payments' = payments]_vars

(* The example: the amount has just been amended to 200.00 with 200.00      *)
(* paid, and amending to 150.00 is refused as below the paid total.         *)
C8_Witness ==
    /\ last.op = "invoices_update_amount"
    /\ \E i \in DOMAIN invoices :
          /\ i = last.args.invoice
          /\ invoices[i].amount = 200000 /\ PaidSum(i) = 200000
          /\ invoices_update_amount_result(1, i, 150000) = R("BelowPaid", 200000)
          /\ invoices_update_amount_result(1, i, 200000).res = "ok"

----------------------------------------------------------------------------
(* Claim of the interleaved specification. *)

(* C3: two concurrent payment requests on the same OPEN invoice, their      *)
(* reads, comparisons, writes and commits interleaved in any order, never   *)
(* both pass the within-balance check and together leave the invoice's      *)
(* payments summing to more than its amount.                                *)
C3_AtomicPayments ==
    \A i \in DOMAIN invoices :
        Open(i) => SumAmounts({p \in payments : p.invoice = i}) <= invoices[i].amount

----------------------------------------------------------------------------
(* Claims of the tenancy specification. *)

InvoiceIds == 1..(Len(invoices) + 1)
ClientIds == 1..(Len(clients) + 1)
PaymentIds == 1..nextPid

(* Every answer a read request of session s can get, whatever ids it sends. *)
ViewsOf(s) ==
    {clients_list(s), export_invoices_csv(s), export_payments_csv(s)}
    \cup {invoices_list(s, o, cl, "None", "None", "None", iv) :
               o \in BOOLEAN, cl \in {"None", "A", "n"}, iv \in BOOLEAN}
    \cup {invoice_detail(s, i) : i \in InvoiceIds}
    \cup {invoice_audit(s, i) : i \in InvoiceIds}
    \cup {invoice_print(s, i) : i \in InvoiceIds}
    \cup {payments_for_invoice(s, i) : i \in InvoiceIds}
    \cup {client_page(s, c, o) : c \in ClientIds, o \in BOOLEAN}
    \cup {search(s, q, "None", y, "None") : q \in {"", "A", " A ", "n"}, y \in {"None", "2024"}}

(* An answer shows a row owned by entity b. *)
ShowsAr(rows, b) ==
    \/ \E c \in rows.clients : clients[c].ar = b
    \/ \E i \in rows.invoices : invoices[i].ar = b
    \/ \E k \in rows.payments : \E p \in payments : p.id = k /\ invoices[p.invoice].ar = b

ClientsOfAr(b) == {<<c, clients[c]>> : c \in {x \in DOMAIN clients : clients[x].ar = b}}
InvoicesOfAr(b) == {<<i, invoices[i]>> : i \in {x \in DOMAIN invoices : invoices[x].ar = b}}
PaymentsOfAr(b) == {p \in payments : invoices[p.invoice].ar = b}

(* C4: tenant isolation.  For a logged-in user whose grants do not contain  *)
(* entity b, no list, detail, audit, print, payments page, client page,     *)
(* search or export shows a client, invoice or payment of b, whatever ids   *)
(* are sent; switching to b is refused; and no request of that user         *)
(* changes a client, invoice or payment of b or selects b in the session.   *)
C4_TenantIsolation ==
    /\ [](\A s \in Sessions, b \in ArIds :
            (current_user(s) # 0 /\ <<current_user(s), b>> \notin grants) =>
                /\ \A v \in ViewsOf(s) : ~ ShowsAr(v.msg, b)
                /\ do_switch_ar_result(s, b).res = "Forbidden")
    /\ [][\A s \in Sessions, b \in ArIds :
            (last'.sess = s /\ current_user(s) # 0 /\ <<current_user(s), b>> \notin grants) =>
                /\ ClientsOfAr(b)' = ClientsOfAr(b)
                /\ InvoicesOfAr(b)' = InvoicesOfAr(b)
                /\ PaymentsOfAr(b)' = PaymentsOfAr(b)
                /\ session'[s].ar = b => session[s].ar = b]_vars

(* The second user, granted 'Red Roof Inn' only, has just acted and sees    *)
(* an invoice of its own, while 'Motel 6' holds an invoice with a payment   *)
(* that the admin's session opens and the second user's does not.           *)
C4_Witness ==
    /\ last.sess = 2
    /\ user_allowed_ar_ids(current_user(2)) = {1}
    /\ export_invoices_csv(2).msg.invoices # {}
    /\ do_switch_ar_result(2, 2).res = "Forbidden"
    /\ \E i \in DOMAIN invoices :
          /\ invoices[i].ar = 2 /\ PaymentsOf(i) # {}
          /\ invoice_detail(1, i).res = "ok"
          /\ invoice_detail(2, i).res = "NotFound"
          /\ payments_add_result(2, i, "cash", 100000, "None", "None").res = "NotFound"

(* C9: deletePayment answers NotFound when the payment does not exist or    *)
(* its invoice belongs to another entity than the scope's, VoidInvoice      *)
(* when its invoice is VOID, and otherwise removes exactly that payment:    *)
(* the invoice's paid total drops by its amount, no other payment and no    *)
(* invoice changes; and a payment disappears only that way.                 *)
C9_DeletePayment ==
    /\ [](\A s \in Sessions, k \in PaymentIds : ensure_scope(s) = "ok" =>
            LET r == payments_delete_result(s, k)
                row == {p \in payments : p.id = k}
                mine == {p \in row : invoices[p.invoice].ar = session[s].ar}
            IN  /\ mine = {} => r.res = "NotFound"
                /\ (\E p \in mine : Void(p.invoice)) => r.res = "VoidInvoice"
                /\ (\E p \in mine : Open(p.invoice)) => r.res = "ok")
    /\ [][/\ last'.op = "payments_delete" =>
               \E p \in payments :
                  /\ p.id = last'.args.payment
                  /\ invoices[p.invoice].ar = session[last'.sess].ar
                  /\ Open(p.invoice)
                  /\ payments' = payments \ {p}
                  /\ SumAmounts({q \in payments' : q.invoice = p.invoice})
                        = PaidSum(p.invoice) - p.amount
                  /\ invoices' = invoices
          /\ (\E p \in payments : \A q \in payments' : q.id # p.id) =>
               last'.op = "payments_delete"]_vars

(* The second user has just deleted a payment of its own entity; the        *)
(* payment left belongs to a VOID invoice of the other entity: deleting it  *)
(* is NotFound for the second user and VoidInvoice for the admin.           *)
C9_Witness ==
    /\ last.op = "payments_delete" /\ last.sess = 2
    /\ ensure_scope(2) = "ok" /\ ensure_scope(1) = "ok"
    /\ \E p \in payments :
          /\ invoices[p.invoice].ar # session[2].ar
          /\ payments_delete_result(2, p.id).res = "NotFound"
          /\ payments_delete_result(1, p.id).res = "VoidInvoice"
    /\ payments_delete_result(2, last.args.payment).res = "NotFound"

----------------------------------------------------------------------------
(* Claim of the creation specification. *)

NextDay(d) ==
    IF d[3] < DaysInMonth(d[1], d[2]) THEN <<d[1], d[2], d[3] + 1>>
    ELSE IF d[2] < 12 THEN <<d[1], d[2] + 1, 1>>
    ELSE <<d[1] + 1, 1, 1>>

(* The days from date a to date b, counted one calendar day at a time. *)
RECURSIVE DaysFrom(_, _, _)
DaysFrom(a, b, n) ==
    IF a = b THEN n ELSE IF n >= 60 THEN -1 ELSE DaysFrom(NextDay(a), b, n + 1)

(* C10: every successful createInvoice (either form) appends one invoice    *)
(* with status OPEN, nights = check_out - check_in in days, amount =        *)
(* nights x rate rounded to 2 decimals, and no payments; the payments and   *)
(* the other invoices are unchanged.                                        *)
C10_CreateInvoice ==
    [][last'.op \in {"invoices_create", "client_create_invoice"} =>
          LET a == last'.args
              n == Len(invoices')
          IN  /\ n = Len(invoices) + 1
              /\ SubSeq(invoices', 1, n - 1) = invoices
              /\ invoices'[n].status = "OPEN"
              /\ invoices'[n].nights = DaysFrom(a.check_in, a.check_out, 0)
              /\ invoices'[n].nights > 0
              /\ invoices'[n].amount = Round2(invoices'[n].nights * a.rate)
              /\ invoices'[n].check_in = a.check_in /\ invoices'[n].check_out = a.check_out
              /\ invoices'[n].rate = a.rate /\ invoices'[n].client = a.client
              /\ payments' = payments
              /\ \A p \in payments' : p.invoice # n]_vars

(* The example: check-in 2024-01-10, check-out 2024-01-13 at 100.00 has     *)
(* just been stored as 3 nights and 300.00, OPEN and without payments,      *)
(* next to an invoice that has a payment.                                   *)
C10_Witness ==
    /\ last.op = "invoices_create"
    /\ last.args.check_in = <<2024, 1, 10>> /\ last.args.check_out = <<2024, 1, 13>>
    /\ last.args.rate = 100000
    /\ LET n == Len(invoices)
       IN  /\ n > 1
           /\ invoices[n].nights = 3 /\ invoices[n].amount = 300000
           /\ invoices[n].status = "OPEN"
           /\ PaymentsOf(n) = {} /\ payments # {}

----------------------------------------------------------------------------
(* Claim of the access specification. *)

(* Every answer a scoped write request of session s can get. *)
WriteAnswers(s) ==
    {clients_add_result(s, n) : n \in ClientNames}
    \cup {invoices_create_result(s, c, "A", <<2024, 1, 10>>, <<2024, 1, 13>>, 100000) :
             c \in ClientIds}
    \cup {client_create_invoice_result(s, c, "A", <<2024, 1, 10>>, <<2024, 1, 13>>, 100000) :
             c \in ClientIds}
    \cup {invoices_void_result(s, i) : i \in InvoiceIds}
    \cup {invoices_update_amount_result(s, i, 200000) : i \in InvoiceIds}
    \cup {payments_add_result(s, i, m, 100000, "None", "None") :
             i \in InvoiceIds, m \in {"cash", "wire"}}
    \cup {payments_delete_result(s, k) : k \in PaymentIds}
    \cup {payments_update_result(s, k, m, 100000, "None", "None") :
             k \in PaymentIds, m \in {"cash", "wire"}}

(* C5: ensure_scope passes iff the session names an existing user, has a    *)
(* selected entity, and that entity is in the user's current grants;        *)
(* otherwise it fails NotAuthenticated, NoArSelected, ArNotAllowed, checked *)
(* in that order.  While it fails, every scoped request gets that failure   *)
(* and no row, whatever it sends; and every step that changes a client, an  *)
(* invoice or a payment is by a session that passes the gate.               *)
C5_ScopeGate ==
    /\ [](\A s \in Sessions :
            LET named == session[s].uid \in DOMAIN users
                chosen == session[s].ar # 0
                granted == <<session[s].uid, session[s].ar>> \in grants
            IN  /\ ensure_scope(s) = "ok" <=> (named /\ chosen /\ granted)
                /\ ~ named => ensure_scope(s) = "NotAuthenticated"
                /\ (named /\ ~ chosen) => ensure_scope(s) = "NoArSelected"
                /\ (named /\ chosen /\ ~ granted) => ensure_scope(s) = "ArNotAllowed"
                /\ ensure_scope(s) # "ok" =>
                      /\ \A r \in WriteAnswers(s) : r = R(ensure_scope(s), 0)
                      /\ \A v \in ViewsOf(s) : v = R(ensure_scope(s), NoRows))
    /\ [][(clients' # clients \/ invoices' # invoices \/ payments' # payments) =>
             /\ last'.sess \in Sessions
             /\ session[last'.sess].uid \in DOMAIN users
             /\ <<session[last'.sess].uid, session[last'.sess].ar>> \in grants]_vars

(* The admin has just saved the access form, and a logged-in session still  *)
(* selects an entity its user is no longer granted, while clients of that   *)
(* entity exist: its next scoped requests are refused.                      *)
C5_Witness ==
    /\ last.op = "admin_users_save"
    /\ \E s \in Sessions :
          /\ session[s].uid \in DOMAIN users /\ session[s].ar # 0
          /\ <<session[s].uid, session[s].ar>> \notin grants
          /\ get_clients(session[s].ar) # {}
          /\ clients_list(s) = R("ArNotAllowed", NoRows)
          /\ clients_add_result(s, "Bob") = R("ArNotAllowed", 0)

----------------------------------------------------------------------------
(* Further claims of the creation specification. *)

(* Date a is strictly before date b, by year, then month, then day. *)
DateBefore(a, b) ==
    \/ a[1] < b[1]
    \/ a[1] = b[1] /\ a[2] < b[2]
    \/ a[1] = b[1] /\ a[2] = b[2] /\ a[3] < b[3]

(* C11: nights(check_in, check_out) is the day difference, or 0 when        *)
(* check_out is on or before check_in (so nights(d, d) = 0); both create    *)
(* forms refuse every request whose nights is <= 0, as NightsInvalid once   *)
(* the client and the number are accepted; and every stored invoice has     *)
(* nights >= 1, equal to its day difference, and check_out after check_in.  *)
C11_NightsPositive ==
    /\ \A ci \in CreateCheckIns \cup CreateCheckOuts, co \in CreateCheckIns \cup CreateCheckOuts :
          /\ compute_nights(ci, ci) = 0
          /\ ~ DateBefore(ci, co) => compute_nights(ci, co) = 0
          /\ DateBefore(ci, co) =>
                compute_nights(ci, co) = DaysFrom(ci, co, 0) /\ compute_nights(ci, co) >= 1
    /\ \A s \in Sessions, c \in ClientIds, n \in CreateNumbers, ci \in CreateCheckIns,
          co \in CreateCheckOuts, r \in CreateRates :
          ~ DateBefore(ci, co) =>
             LET r1 == invoices_create_result(s, c, n, ci, co, r)
                 r2 == client_create_invoice_result(s, c, n, ci, co, r)
                 accepted == /\ ensure_scope(s) = "ok"
                             /\ c \in DOMAIN clients /\ clients[c].ar = session[s].ar
                             /\ n \notin {"", "  "}
                             /\ \A i \in DOMAIN invoices :
                                   invoices[i].ar = session[s].ar => invoices[i].number # Strip(n)
             IN  /\ r1.res # "ok" /\ r2.res # "ok"
                 /\ accepted => r1.res = "NightsInvalid" /\ r2.res = "NightsInvalid"
    /\ \A i \in DOMAIN invoices :
          /\ invoices[i].nights >= 1
          /\ DateBefore(invoices[i].check_in, invoices[i].check_out)
          /\ invoices[i].nights = DaysFrom(invoices[i].check_in, invoices[i].check_out, 0)

(* One invoice is stored, just created through the client's form, and a     *)
(* same-day stay and a stay ending before it starts are both refused as     *)
(* NightsInvalid under a fresh number.                                      *)
C11_Witness ==
    /\ last.op = "client_create_invoice"
    /\ Len(invoices) = 1 /\ invoices[1].number = "A"
    /\ invoices_create_result(1, 2, "B", <<2024, 1, 10>>, <<2024, 1, 10>>, 100000).res
          = "NightsInvalid"
    /\ client_create_invoice_result(1, 2, "B", <<2024, 1, 28>>, <<2024, 1, 13>>, 100000).res
          = "NightsInvalid"

(* C12: both create forms answer ClientNotFound, and store nothing, when    *)
(* the client id is not a client of the scope's entity, whatever else is    *)
(* sent; an invoice is appended only for a client of the session's entity;  *)
(* and in every state each invoice's entity is the entity of its client.    *)
C12_ClientOfScope ==
    /\ [](\A s \in Sessions, c \in ClientIds, n \in CreateNumbers, ci \in CreateCheckIns,
             co \in CreateCheckOuts, r \in CreateRates :
             (ensure_scope(s) = "ok"
                 /\ ~ (c \in DOMAIN clients /\ clients[c].ar = session[s].ar)) =>
                /\ invoices_create_result(s, c, n, ci, co, r).res = "ClientNotFound"
                /\ client_create_invoice_result(s, c, n, ci, co, r).res = "ClientNotFound")
    /\ [](\A i \in DOMAIN invoices :
             /\ invoices[i].client \in DOMAIN clients
             /\ invoices[i].ar = clients[invoices[i].client].ar)
    /\ [][Len(invoices') > Len(invoices) =>
             /\ last'.args.client \in DOMAIN clients
             /\ clients[last'.args.client].ar = session[last'.sess].ar
             /\ invoices'[Len(invoices')].client = last'.args.client
             /\ invoices'[Len(invoices')].ar = session[last'.sess].ar]_vars

(* An invoice has just been stored for the client of the session's entity,  *)
(* and the same request for the other entity's client, or for a client id   *)
(* that does not exist, is refused as ClientNotFound.                       *)
C12_Witness ==
    /\ last.op = "invoices_create" /\ last.args.client = 2
    /\ session[1].ar = 2 /\ clients[1].ar = 1
    /\ \E i \in DOMAIN invoices : invoices[i].client = 2 /\ invoices[i].ar = 2
    /\ invoices_create_result(1, 1, "B", <<2024, 1, 10>>, <<2024, 1, 13>>, 100000).res
          = "ClientNotFound"
    /\ client_create_invoice_result(1, 3, "B", <<2024, 1, 10>>, <<2024, 1, 13>>, 100000).res
          = "ClientNotFound"

----------------------------------------------------------------------------
(* Claim of the interleaved creation specification. *)

(* C13: createInvoice (either form) is refused when the invoice number is   *)
(* blank after trimming (NumberRequired) or is the number of an invoice of  *)
(* the same entity (NumberExists), and is accepted when the number is used  *)
(* in another entity only; and in every state, also when create requests    *)
(* with the same number are served concurrently, no two invoices of one     *)
(* entity have the same number and no stored number is blank.               *)
C13_NumberUnique ==
    \A s \in Sessions, c \in DOMAIN clients, n \in ConcNumbers :
        /\ (ensure_scope(s) = "ok" /\ clients[c].ar = session[s].ar) =>
              LET r1 == invoices_create_result(s, c, n, <<2024, 1, 10>>, <<2024, 1, 13>>, 100000)
                  r2 == client_create_invoice_result(s, c, n, <<2024, 1, 10>>, <<2024, 1, 13>>,
                                                     100000)
                  blank == n \in {"", "  "}
                  used == \E i \in DOMAIN invoices :
                             invoices[i].ar = session[s].ar /\ invoices[i].number = Strip(n)
              IN  /\ blank => r1.res = "NumberRequired" /\ r2.res = "NumberRequired"
                  /\ (~ blank /\ used) => r1.res = "NumberExists" /\ r2.res = "NumberExists"
                  /\ (~ blank /\ ~ used) => r1.res = "ok" /\ r2.res = "ok"
        /\ \A i \in DOMAIN invoices, j \in DOMAIN invoices :
              (i # j /\ invoices[i].ar = invoices[j].ar) => invoices[i].number # invoices[j].number
        /\ \A i \in DOMAIN invoices : invoices[i].number \notin {"", "  ", " A "}

(* Number "A" is stored in both entities; the second of them has just been  *)
(* committed by one thread while the other thread, which read the table     *)
(* before that commit, is about to insert the same number in the same       *)
(* entity, and a new request with that number is refused as NumberExists.   *)
C13_Witness ==
    /\ last.op = "invoices_create"
    /\ \E i \in DOMAIN invoices, j \in DOMAIN invoices :
          /\ invoices[i].ar = 1 /\ invoices[j].ar = 2
          /\ invoices[i].number = "A" /\ invoices[j].number = "A"
    /\ \E p \in Procs :
          /\ procs[p].pc = "crt_insert"
          /\ Strip(procs[p].number) = "A"
          /\ procs[p].ar = session[last.sess].ar
    /\ invoices_create_result(last.sess, last.args.client, " A ", <<2024, 1, 10>>,
                              <<2024, 1, 13>>, 100000).res = "NumberExists"

----------------------------------------------------------------------------
(* Claims of the specification from construction: clients and access.      *)

(* C14: adding a client whose trimmed name is the name of a client of the   *)
(* session's entity is refused (NameTaken), a name used in another entity   *)
(* only is accepted; the client table changes only by an accepted add,      *)
(* which appends one client under a name new to its entity; and in every    *)
(* state no two clients of one entity have the same name.                   *)
C14_ClientNamesUnique ==
    /\ [](\A s \in Sessions, n \in ClientNames :
            ensure_scope(s) = "ok" =>
               LET used == \E c \in DOMAIN clients :
                              clients[c].ar = session[s].ar /\ clients[c].name = Strip(n)
               IN  /\ used => clients_add_result(s, n).res = "NameTaken"
                   /\ ~ used => clients_add_result(s, n).res = "ok")
    /\ [](\A c \in DOMAIN clients, d \in DOMAIN clients :
            (c # d /\ clients[c].ar = clients[d].ar) => clients[c].name # clients[d].name)
    /\ [][clients' # clients =>
            /\ last'.op = "clients_add"
            /\ Len(clients') = Len(clients) + 1
            /\ \A c \in DOMAIN clients : clients'[c] = clients[c]
            /\ clients'[Len(clients')].ar = session[last'.sess].ar
            /\ clients'[Len(clients')].name = Strip(last'.args.name)
            /\ \A c \in DOMAIN clients :
                  clients[c].ar = session[last'.sess].ar =>
                     clients[c].name # Strip(last'.args.name)]_vars

(* "Ann" is a client of both entities, the second one just added as " Ann ", *)
(* and adding "Ann" once more in the session's entity is refused.            *)
C14_Witness ==
    /\ last.op = "clients_add"
    /\ last.args.name = " Ann "
    /\ \E c \in DOMAIN clients, d \in DOMAIN clients :
          clients[c].ar = 1 /\ clients[d].ar = 2 /\ clients[c].name = "Ann"
          /\ clients[d].name = "Ann"
    /\ clients_add_result(last.sess, "Ann").res = "NameTaken"
    /\ clients_add_result(last.sess, " Ann ").res = "NameTaken"

(* C15: the users table changes only by a registration, which appends one   *)
(* account and leaves every existing account's row and grants as they were; *)
(* the account appended to an empty table is admin and holds, right after,  *)
(* a grant for every entity; an account appended to a non-empty table is    *)
(* not admin, holds no grant right after, and the grant set is unchanged.   *)
(* So in every state account 1 is the one admin.                            *)
C15_FirstAccountAdmin ==
    /\ [][users' # users =>
            LET uid == Len(users) + 1
            IN  /\ last'.op = "register"
                /\ Len(users') = uid
                /\ \A u \in DOMAIN users :
                      /\ users'[u] = users[u]
                      /\ \A a \in ArIds : (<<u, a>> \in grants') <=> (<<u, a>> \in grants)
                /\ (uid = 1) =>
                      users'[uid].is_admin /\ \A a \in ArIds : <<uid, a>> \in grants'
                /\ (uid > 1) =>
                      /\ ~ users'[uid].is_admin
                      /\ \A a \in ArIds : <<uid, a>> \notin grants'
                      /\ grants' = grants]_vars
    /\ [](\A u \in DOMAIN users : users[u].is_admin <=> (u = 1))

(* A second account has just been registered, after the admin had saved a   *)
(* form that also named pairs of account 2: it is not admin and holds no    *)
(* grant, and the admin's grant is as it was saved.                         *)
C15_Witness ==
    /\ last.op = "register"
    /\ Len(users) = 2
    /\ users[1].is_admin /\ ~ users[2].is_admin
    /\ grants = {<<1, 2>>}

(* C16: a grant-save request of a session that is not logged in, or whose   *)
(* user is not admin, is refused (AdminOnly); and the grant set changes     *)
(* only by the registration of the first account or by a grant-save sent by *)
(* a session logged in as an admin: no other step adds or removes a grant.  *)
C16_GrantsByAdminOnly ==
    /\ [](\A s \in Sessions :
            (session[s].uid \notin DOMAIN users \/ ~ users[session[s].uid].is_admin) =>
               admin_users_save_result(s).res = "AdminOnly")
    /\ [][grants' # grants =>
            \/ last'.op = "register" /\ users = <<>>
            \/ /\ last'.op = "admin_users_save"
               /\ session[last'.sess].uid \in DOMAIN users
               /\ users[session[last'.sess].uid].is_admin]_vars

(* The admin has just saved a form that grants entity 1 to account 2 while  *)
(* account 2, not an admin, is logged in on the other session: the same     *)
(* request from that session is refused.                                    *)
C16_Witness ==
    /\ last.op = "admin_users_save"
    /\ <<2, 1>> \in grants
    /\ \E s \in Sessions :
          /\ s # last.sess
          /\ session[s].uid = 2
          /\ ~ users[2].is_admin
          /\ admin_users_save_result(s).res = "AdminOnly"

(* C17: for every form, saving it a second time leaves the grant set the    *)
(* first save produced and executes no INSERT and no DELETE; a form that    *)
(* asks for what is already stored changes nothing; no save ever INSERTs a  *)
(* pair that is stored, so the primary key never refuses a save and no pair *)
(* is stored twice; and after a save, the pairs of the existing accounts    *)
(* that are granted are exactly the pairs of the form.                      *)
C17_GrantIdempotent ==
    /\ [](\A f \in SaveForms :
            LET g1 == GrantsAfterSave(grants, f)
                pairs == (DOMAIN users) \X ArIds
            IN  /\ GrantsAfterSave(g1, f) = g1
                /\ GrantInserts(g1, f) = {} /\ GrantDeletes(g1, f) = {}
                /\ GrantInsertOk(grants, f) /\ GrantInsertOk(g1, f)
                /\ GrantInserts(grants, f) \cap grants = {}
                /\ GrantDeletes(grants, f) \subseteq grants
                /\ (\A x \in pairs : x \in f <=> x \in grants) => g1 = grants
                /\ \A x \in pairs : x \in g1 <=> x \in f)
    /\ [][last'.op = "admin_users_save" =>
            /\ \A x \in (DOMAIN users) \X ArIds : x \in grants' <=> x \in last'.args.form
            /\ (last.op = "admin_users_save" /\ last.args.form = last'.args.form) =>
                  grants' = grants]_vars

(* A form has just been saved with both accounts registered; it names a     *)
(* pair that is granted and leaves out a pair that is not, and saving it    *)
(* again is accepted and would change nothing.                              *)
C17_Witness ==
    /\ last.op = "admin_users_save"
    /\ Len(users) = 2
    /\ \E x \in last.args.form : x \in grants
    /\ \E x \in (DOMAIN users) \X ArIds : x \notin last.args.form /\ x \notin grants
    /\ admin_users_save_result(last.sess).res = "ok"
    /\ GrantInsertOk(grants, last.args.form)
    /\ GrantsAfterSave(grants, last.args.form) = grants

----------------------------------------------------------------------------
(* Further claims of the tenancy specification. *)

(* C18: a void request is accepted exactly for an invoice of the session's  *)
(* entity, VOID or not, and is answered NotFound for an id that is missing  *)
(* or of another entity; an accepted void sets that invoice's status to     *)
(* VOID and changes no other field of it, no other invoice, no payment and  *)
(* nothing else of the store; on an invoice already VOID it changes         *)
(* nothing.                                                                 *)
C18_VoidFrame ==
    /\ [](\A s \in Sessions, i \in InvoiceIds : ensure_scope(s) = "ok" =>
            /\ (i \in DOMAIN invoices /\ invoices[i].ar = session[s].ar) =>
                  invoices_void_result(s, i).res = "ok"
            /\ (i \notin DOMAIN invoices \/ invoices[i].ar # session[s].ar) =>
                  invoices_void_result(s, i).res = "NotFound")
    /\ [][last'.op = "invoices_void" =>
            LET i == last'.args.invoice
            IN  /\ i \in DOMAIN invoices
                /\ invoices[i].ar = session[last'.sess].ar
                /\ DOMAIN invoices' = DOMAIN invoices
                /\ \A j \in DOMAIN invoices : j # i => invoices'[j] = invoices[j]
                /\ invoices'[i].status = "VOID"
                /\ invoices'[i].amount = invoices[i].amount
                /\ invoices'[i].nights = invoices[i].nights
                /\ invoices'[i].rate = invoices[i].rate
                /\ invoices'[i].check_in = invoices[i].check_in
                /\ invoices'[i].check_out = invoices[i].check_out
                /\ invoices'[i].number = invoices[i].number
                /\ invoices'[i].client = invoices[i].client
                /\ invoices'[i].ar = invoices[i].ar
                /\ payments' = payments
                /\ nextPid' = nextPid
                /\ clients' = clients /\ users' = users /\ grants' = grants
                /\ session' = session
                /\ Void(i) => invoices' = invoices]_vars

(* An invoice that has a payment has just been voided, its payment and      *)
(* amount still there; voiding it again is accepted, and the same session   *)
(* gets NotFound for the other entity's invoice and for an id never issued. *)
C18_Witness ==
    /\ last.op = "invoices_void"
    /\ Len(invoices) = 2
    /\ LET i == last.args.invoice
           j == 3 - i
       IN  /\ Void(i) /\ PaymentsOf(i) # {} /\ invoices[i].amount = 300000
           /\ invoices_void_result(last.sess, i).res = "ok"
           /\ invoices[j].ar # session[last.sess].ar /\ Open(j)
           /\ invoices_void_result(last.sess, j).res = "NotFound"
           /\ invoices_void_result(last.sess, 3).res = "NotFound"

----------------------------------------------------------------------------
(* Further claims of the ledger specification. *)

(* The amounts of the payments of invoice i with ids 1..k, added id by id. *)
RECURSIVE SumByIds(_, _)
SumByIds(i, k) ==
    IF k = 0 THEN 0
    ELSE SumByIds(i, k - 1)
         + (IF \E p \in payments : p.id = k /\ p.invoice = i
            THEN (CHOOSE p \in payments : p.id = k /\ p.invoice = i).amount
            ELSE 0)

(* C19: for every invoice, paid_and_balance returns the invoice's amount,   *)
(* the sum of the payments stored for it (0 when it has none) and the       *)
(* amount minus that sum rounded to the nearest cent; and right after a     *)
(* committed payment add, update or delete the paid total it returns for    *)
(* the payment's invoice has moved by exactly that change, the amount it    *)
(* returns has not, and what it returns for every other invoice has not.    *)
C19_BalanceRead ==
    /\ [](\A i \in DOMAIN invoices :
            LET b == paid_and_balance(i)
                exact == invoices[i].amount - SumByIds(i, nextPid)
            IN  /\ b[1] = invoices[i].amount
                /\ b[2] = SumByIds(i, nextPid)
                /\ (\A p \in payments : p.invoice # i) => b[2] = 0
                /\ b[3] % 10 = 0
                /\ b[3] - exact < 5 /\ exact - b[3] < 5)
    /\ [][\A i \in DOMAIN invoices :
            /\ (last'.op = "payments_add" /\ last'.args.invoice = i) =>
                  /\ paid_and_balance(i)'[2] = paid_and_balance(i)[2] + last'.args.amount
                  /\ paid_and_balance(i)'[1] = paid_and_balance(i)[1]
            /\ (last'.op = "payments_add" /\ last'.args.invoice # i) =>
                  paid_and_balance(i)' = paid_and_balance(i)
            /\ \A p \in payments :
                  /\ (last'.op = "payments_update" /\ last'.args.payment = p.id) =>
                        paid_and_balance(i)' =
                           IF p.invoice = i
                           THEN <<invoices[i].amount,
                                  PaidSum(i) - p.amount + last'.args.amount,
                                  Round2(invoices[i].amount
                                         - (PaidSum(i) - p.amount + last'.args.amount))>>
                           ELSE paid_and_balance(i)
                  /\ (last'.op = "payments_delete" /\ last'.args.payment = p.id) =>
                        paid_and_balance(i)' =
                           IF p.invoice = i
                           THEN <<invoices[i].amount, PaidSum(i) - p.amount,
                                  Round2(invoices[i].amount - (PaidSum(i) - p.amount))>>
                           ELSE paid_and_balance(i)]_vars

(* A payment of 0.004 has just been added to an invoice of 300.00 that had  *)
(* 100.00 paid: the read returns paid 100.004 and the balance 200.00, the   *)
(* cent nearest to 199.996; an invoice without payments reads paid 0.       *)
C19_Witness ==
    /\ last.op = "payments_add"
    /\ last.args.amount = 4
    /\ paid_and_balance(last.args.invoice) = <<300000, 100004, 200000>>
    /\ \E j \in DOMAIN invoices : paid_and_balance(j) = <<300000, 0, 300000>>

(* C20: invoice lifecycle.  Every status is OPEN or VOID; a step never      *)
(* removes an invoice or changes which invoice an id names; an invoice a    *)
(* step adds is OPEN and is added by a create request; a status changes     *)
(* only from OPEN to VOID, by a void request for that invoice; and a        *)
(* payment row is added, changed or removed only while its invoice is not   *)
(* VOID, before and after the step.                                         *)
C20_Lifecycle ==
    /\ [](\A i \in DOMAIN invoices : invoices[i].status \in {"OPEN", "VOID"})
    /\ [][/\ Len(invoices') >= Len(invoices)
          /\ \A i \in DOMAIN invoices :
                /\ invoices'[i].number = invoices[i].number
                /\ invoices'[i].client = invoices[i].client
                /\ invoices'[i].ar = invoices[i].ar
                /\ invoices'[i].status # invoices[i].status =>
                      /\ invoices[i].status = "OPEN" /\ invoices'[i].status = "VOID"
                      /\ last'.op = "invoices_void" /\ last'.args.invoice = i
          /\ \A i \in DOMAIN invoices' : i \notin DOMAIN invoices =>
                /\ invoices'[i].status = "OPEN"
                /\ i = Len(invoices) + 1
                /\ last'.op \in {"invoices_create", "client_create_invoice"}
          /\ \A p \in (payments' \ payments) \cup (payments \ payments') :
                /\ invoices[p.invoice].status # "VOID"
                /\ invoices'[p.invoice].status # "VOID"
                /\ last'.op \in {"payments_add", "payments_update", "payments_delete"}]_vars

(* Of two invoices, both created OPEN, one has just been voided with its    *)
(* payment in place and takes no further payment, update or delete, while   *)
(* the other is still OPEN and takes one.                                   *)
C20_Witness ==
    /\ last.op = "invoices_void"
    /\ Len(invoices) = 2
    /\ LET i == last.args.invoice
           j == 3 - i
       IN  /\ invoices[i].status = "VOID" /\ invoices[j].status = "OPEN"
           /\ \E p \in payments :
                 /\ p.invoice = i
                 /\ payments_delete_result(1, p.id).res = "VoidInvoice"
                 /\ payments_update_result(1, p.id, "cash", 100000, "None", "None").res
                       = "VoidInvoice"
           /\ payments_add_result(1, i, "cash", 100000, "None", "None").res = "VoidInvoice"
           /\ payments_add_result(1, j, "cash", 100000, "None", "None").res = "ok"

----------------------------------------------------------------------------
(* Claims on errors, under the tenancy specification. *)

ProbeMethods == LedgerMethods \cup {<<"card", "None", "None">>, <<"check", "None", "None">>}
ProbePays == TenantPays \cup {0, 400000}

(* C21: for a scoped session, every request that names an invoice, a        *)
(* payment or a client gets the same answer, kind and content, for an id of *)
(* another entity as for an id that does not exist, whatever its other      *)
(* arguments; none of these answers is an acceptance, so neither request    *)
(* is a step and the store is the same after both.                          *)
C21_NoExistenceLeak ==
    \A s \in Sessions : ensure_scope(s) = "ok" =>
        /\ \A i \in DOMAIN invoices, j \in InvoiceIds \ DOMAIN invoices :
              invoices[i].ar # session[s].ar =>
                 /\ invoices_void_result(s, i) = invoices_void_result(s, j)
                 /\ invoices_void_result(s, i).res # "ok"
                 /\ \A a \in AmendInputs :
                       /\ invoices_update_amount_result(s, i, a)
                             = invoices_update_amount_result(s, j, a)
                       /\ invoices_update_amount_result(s, i, a).res # "ok"
                 /\ \A m \in ProbeMethods, a \in ProbePays :
                       /\ payments_add_result(s, i, m[1], a, m[2], m[3])
                             = payments_add_result(s, j, m[1], a, m[2], m[3])
                       /\ payments_add_result(s, i, m[1], a, m[2], m[3]).res # "ok"
                 /\ invoice_detail(s, i) = invoice_detail(s, j)
                 /\ invoice_audit(s, i) = invoice_audit(s, j)
                 /\ invoice_print(s, i) = invoice_print(s, j)
                 /\ payments_for_invoice(s, i) = payments_for_invoice(s, j)
                 /\ invoice_detail(s, i).res # "ok" /\ invoice_audit(s, i).res # "ok"
                 /\ invoice_print(s, i).res # "ok" /\ payments_for_invoice(s, i).res # "ok"
        /\ \A p \in payments, l \in PaymentIds \ {x.id : x \in payments} :
              invoices[p.invoice].ar # session[s].ar =>
                 /\ payments_delete_result(s, p.id) = payments_delete_result(s, l)
                 /\ payments_delete_result(s, p.id).res # "ok"
                 /\ \A m \in ProbeMethods, a \in ProbePays :
                       /\ payments_update_result(s, p.id, m[1], a, m[2], m[3])
                             = payments_update_result(s, l, m[1], a, m[2], m[3])
                       /\ payments_update_result(s, p.id, m[1], a, m[2], m[3]).res # "ok"
        /\ \A c \in DOMAIN clients, d \in ClientIds \ DOMAIN clients :
              clients[c].ar # session[s].ar =>
                 /\ \A o \in BOOLEAN : /\ client_page(s, c, o) = client_page(s, d, o)
                                       /\ client_page(s, c, o).res # "ok"
                 /\ \A n \in {"A", "B", "  "}, co \in LedgerCheckOuts, r \in {100000, -100000} :
                       /\ invoices_create_result(s, c, n, <<2024, 1, 10>>, co, r)
                             = invoices_create_result(s, d, n, <<2024, 1, 10>>, co, r)
                       /\ client_create_invoice_result(s, c, n, <<2024, 1, 10>>, co, r)
                             = client_create_invoice_result(s, d, n, <<2024, 1, 10>>, co, r)
                       /\ invoices_create_result(s, c, n, <<2024, 1, 10>>, co, r).res # "ok"
                       /\ client_create_invoice_result(s, c, n, <<2024, 1, 10>>, co, r).res
                             # "ok"

(* The other entity has an invoice with a payment, and a payment of the     *)
(* session's own entity has been deleted: the session is told NotFound for  *)
(* the other entity's invoice and payment as for the ids never issued and   *)
(* the id deleted.                                                          *)
C21_Witness ==
    /\ last.op = "payments_delete"
    /\ ensure_scope(last.sess) = "ok"
    /\ \E p \in payments :
          /\ invoices[p.invoice].ar # session[last.sess].ar
          /\ payments_delete_result(last.sess, p.id) = R("NotFound", 0)
          /\ payments_delete_result(last.sess, last.args.payment) = R("NotFound", 0)
          /\ payments_delete_result(last.sess, nextPid) = R("NotFound", 0)
          /\ invoices_void_result(last.sess, p.invoice) = R("NotFound", 0)
          /\ invoices_void_result(last.sess, Len(invoices) + 1) = R("NotFound", 0)
          /\ invoice_detail(last.sess, p.invoice) = R("NotFound", NoRows)

----------------------------------------------------------------------------
(* Claim of the error specification. *)

(* C22: a create, void, amend, payment add, update or delete, or client    *)
(* creation request that is answered with an error leaves the clients, the  *)
(* invoices and the payments as they were, whatever the error: also when    *)
(* it is the store that refuses the INSERT, for a negative amount or for a  *)
(* number that another request committed after this one had checked it.     *)
C22_ErrorsChangeNothing ==
    /\ [][(last' # last /\ "error" \in DOMAIN last'.args) =>
            /\ clients' = clients
            /\ invoices' = invoices
            /\ payments' = payments
            /\ nextPid' = nextPid]_vars
    /\ [][\A p \in Procs :
            (procs[p].pc = "crt_insert" /\ procs'[p].pc = "idle") =>
               /\ "error" \in DOMAIN last'.args
               /\ \/ procs[p].rate < 0
                  \/ \E i \in DOMAIN invoices :
                        invoices[i].ar = procs[p].ar /\ invoices[i].number = Strip(procs[p].number)
               /\ clients' = clients /\ invoices' = invoices /\ payments' = payments]_vars
    /\ [](\A s \in Sessions, c \in DOMAIN clients, n \in ErrNumbers :
            /\ invoices_create_result(s, c, n, <<2024, 1, 10>>, <<2024, 1, 13>>, -100000).res
                  # "ok"
            /\ client_create_invoice_result(s, c, n, <<2024, 1, 10>>, <<2024, 1, 13>>,
                                            -100000).res # "ok")

(* The store has just refused the INSERT of a request whose number was      *)
(* committed by the other thread after it had passed the number check: the  *)
(* one invoice stored is the other thread's, with its payment.              *)
C22_Witness ==
    /\ last = [op |-> "invoices_create", sess |-> last.sess,
               args |-> [error |-> "IntegrityError"]]
    /\ Len(invoices) = 1
    /\ invoices[1].number = "A" /\ invoices[1].rate = 100000
    /\ \E p \in payments : p.invoice = 1
    /\ \A p \in Procs : procs[p].pc = "idle"

----------------------------------------------------------------------------
(* Claims of the listing specification. *)

ListClientLikes == {"None", "n"}
ListCompanies == {"None", " Acme "}
ListYears == {"None", "2024"}
ListIds(rows) == {rows[k].id : k \in DOMAIN rows}

(* C23: for a scoped session and any other filters, the listing without     *)
(* include_void is the listing with include_void less its VOID invoices:    *)
(* it holds no VOID invoice and every other invoice that passes the         *)
(* filters; with include_void the VOID ones are there too, and without any  *)
(* other filter that listing is every invoice of the entity.                *)
C23_IncludeVoid ==
    \A s \in Sessions : ensure_scope(s) = "ok" =>
        /\ \A o \in BOOLEAN, cl \in ListClientLikes, co \in ListCompanies,
              y \in ListYears :
              LET m == IF y = "None" THEN "None" ELSE "02"
                  with == invoices_list_rows(s, o, cl, co, y, m, TRUE)
                  without == invoices_list_rows(s, o, cl, co, y, m, FALSE)
              IN  /\ ListIds(without) = {i \in ListIds(with) : invoices[i].status # "VOID"}
                  /\ \A i \in ListIds(without) : invoices[i].status # "VOID"
                  /\ invoices_list(s, o, cl, co, y, m, FALSE).msg.invoices = ListIds(without)
                  /\ invoices_list(s, o, cl, co, y, m, TRUE).msg.invoices = ListIds(with)
        /\ ListIds(invoices_list_rows(s, FALSE, "None", "None", "None", "None", TRUE))
              = {i \in DOMAIN invoices : invoices[i].ar = session[s].ar}
        /\ ListIds(invoices_list_rows(s, FALSE, "None", "None", "None", "None", FALSE))
              = {i \in DOMAIN invoices : invoices[i].ar = session[s].ar
                                         /\ invoices[i].status # "VOID"}

(* One of the session's two invoices has just been voided: the default      *)
(* listing shows the other one only, the listing with include_void both.    *)
C23_Witness ==
    /\ last.op = "invoices_void"
    /\ \E i \in DOMAIN invoices, j \in DOMAIN invoices :
          /\ i = last.args.invoice /\ j # i
          /\ invoices[i].status = "VOID" /\ invoices[j].status = "OPEN"
          /\ ListIds(invoices_list_rows(last.sess, FALSE, "None", "None", "2024", "None",
                                        FALSE)) = {j}
          /\ ListIds(invoices_list_rows(last.sess, FALSE, "None", "None", "2024", "None",
                                        TRUE)) = {i, j}

(* C24: for a scoped session the listing holds each matching invoice once,  *)
(* in ascending id order, with paid the sum of its payments; with           *)
(* outstanding it is exactly the rows whose amount minus paid is above      *)
(* zero, so an invoice whose payments add up to its amount is not in it.    *)
C24_OutstandingExact ==
    \A s \in Sessions : ensure_scope(s) = "ok" =>
        \A iv \in BOOLEAN :
            LET all == invoices_list_rows(s, FALSE, "None", "None", "None", "None", iv)
                out == invoices_list_rows(s, TRUE, "None", "None", "None", "None", iv)
            IN  /\ \A k \in DOMAIN all, l \in DOMAIN all : k < l => all[k].id < all[l].id
                /\ \A k \in DOMAIN all : all[k].paid = SumAmounts(PaymentsOf(all[k].id))
                /\ out = SelectSeq(all, LAMBDA r : invoices[r.id].amount - r.paid > 0)
                /\ \A k \in DOMAIN out : paid_and_balance(out[k].id)[3] > 0

DateYears == {"None", "2024", " 2024 ", "2023"}
DateMonths == {"None", "1", "02", "12", "13", "0"}

(* C25: in the listing and in the search, a year and an integer month       *)
(* together select by the month window of that year and month (or fail as   *)
(* that window does), a year alone selects by the year window, and neither  *)
(* selects every invoice of the entity; the selection is by overlap of the  *)
(* stay with the window.                                                    *)
C25_DateFilterChoice ==
    \A s \in Sessions : ensure_scope(s) = "ok" =>
        \A y \in DateYears, m \in DateMonths :
            LET year_i == parse_opt_int(y)
                month_i == parse_opt_int(m)
                w == IF year_i # <<>> /\ month_i # <<>> THEN month_range(year_i[1], month_i[1])
                     ELSE IF year_i # <<>> THEN year_range(year_i[1])
                     ELSE [kind |-> "none"]
                expected == {i \in DOMAIN invoices :
                                /\ invoices[i].ar = session[s].ar
                                /\ w.kind = "window" =>
                                      overlap_sql(invoices[i].check_in,
                                                  invoices[i].check_out, w)}
                listed == invoices_list(s, FALSE, "None", "None", y, m, TRUE)
                found == search(s, "", "None", y, m)
            IN  (year_i # <<>> \/ month_i = <<>>) =>
                    IF w.kind = "ValueError"
                    THEN listed.res = "ValueError" /\ found.res = "ValueError"
                    ELSE /\ listed.res = "ok" /\ listed.msg.invoices = expected
                         /\ found.res = "ok" /\ found.msg.invoices = expected

WindowMonths == {"1", "02", "3"}

(* C26: for a scoped session and a month of 2024, the listing holds exactly *)
(* the entity's invoices whose check_in is before the window's end and      *)
(* whose check_out is after its start, as dates; the stay 2024-01-28 to     *)
(* 2024-02-03 is in January and in February, and a stay that ends on the    *)
(* window's first day or begins on its end is not in it.                    *)
C26_OverlapByDates ==
    \A s \in Sessions : ensure_scope(s) = "ok" =>
        \A m \in WindowMonths :
            LET w == month_range(2024, parse_opt_int(m)[1])
                listed == invoices_list(s, FALSE, "None", "None", "2024", m, TRUE).msg.invoices
            IN  \A i \in DOMAIN invoices : invoices[i].ar = session[s].ar =>
                  /\ i \in listed <=> /\ parse_date(invoices[i].check_in) < parse_date(w.end)
                                      /\ parse_date(invoices[i].check_out) > parse_date(w.start)
                  /\ parse_date(invoices[i].check_out) = parse_date(w.start) => i \notin listed
                  /\ parse_date(invoices[i].check_in) = parse_date(w.end) => i \notin listed
                  /\ ( /\ parse_date(invoices[i].check_in) = parse_date(<<2024, 1, 28>>)
                       /\ parse_date(invoices[i].check_out) = parse_date(<<2024, 2, 3>>) )
                     => (i \in listed <=> m \in {"1", "02"})

RangeYears == {2023, 2024}
RangeMonths == (0 - 1)..14
CalledMonths == {"1", "02", "12", "13", "-1"}

(* C27: month_range(year, month) is the window from the first day of the    *)
(* month to the first day of the next one, the first of January of the next *)
(* year for December, for the months 1 to 12, and a ValueError for every    *)
(* other month, 0 and 13 among them; a listing that calls it with such a    *)
(* month fails with it.                                                     *)
C27_MonthWindow ==
    /\ \A year \in RangeYears, month \in RangeMonths :
          month_range(year, month) =
              IF month \in 1..11 THEN Window(<<year, month, 1>>, <<year, month + 1, 1>>)
              ELSE IF month = 12 THEN Window(<<year, 12, 1>>, <<year + 1, 1, 1>>)
              ELSE ValueError
    /\ month_range(2024, 0) = ValueError /\ month_range(2024, 13) = ValueError
    /\ \A s \in Sessions, m \in CalledMonths : ensure_scope(s) = "ok" =>
          LET month == parse_opt_int(m)[1]
              listed == invoices_list(s, FALSE, "None", "None", "2024", m, TRUE)
          IN  /\ listed.res = (IF month \in 1..12 THEN "ok" ELSE "ValueError")
              /\ listed.res = "ok" =>
                    listed.msg.invoices =
                        {i \in DOMAIN invoices :
                            /\ invoices[i].ar = session[s].ar
                            /\ overlap_sql(invoices[i].check_in, invoices[i].check_out,
                                           month_range(2024, month))}

(* An invoice for the stay 2024-02-01 to 2024-02-03 has been created: it    *)
(* is listed for February, not for December, whose window runs to           *)
(* 2025-01-01, and the listing for month 13 fails.                          *)
C27_Witness ==
    /\ last.op = "invoices_create"
    /\ \E i \in DOMAIN invoices :
          /\ invoices[i].ar = session[last.sess].ar
          /\ invoices[i].check_in = <<2024, 2, 1>>
          /\ i \in invoices_list(last.sess, FALSE, "None", "None", "2024", "02", TRUE).msg.invoices
          /\ i \notin invoices_list(last.sess, FALSE, "None", "None", "2024", "12", TRUE).msg.invoices
    /\ month_range(2024, 12) = Window(<<2024, 12, 1>>, <<2025, 1, 1>>)
    /\ invoices_list(last.sess, FALSE, "None", "None", "2024", "13", TRUE).res = "ValueError"

SearchQs == {"None", "", "A", " A ", "a", "b", "n", "o", "AB", "%", "_"}

(* C28: for a scoped session, a search whose trimmed q is the number of an  *)
(* invoice of the session's entity answers with the redirect to that one    *)
(* invoice; any other non-empty q answers with exactly the entity's         *)
(* invoices whose number or whose client's name contains q (in either       *)
(* case), among those that pass the company and date filters; an empty q    *)
(* answers with all that pass those filters.                                *)
C28_SearchResult ==
    \A s \in Sessions : ensure_scope(s) = "ok" =>
        \A q \in SearchQs, company \in ListCompanies, year \in ListYears :
            LET month == IF year = "None" THEN "None" ELSE "02"
                Contains(a, x) ==
                    \E k \in 0..(Len(Chars(x)) - Len(Chars(a))) :
                        \A j \in 1..Len(Chars(a)) : Fold(Chars(x)[k + j]) = Fold(Chars(a)[j])
                inScope == {i \in DOMAIN invoices : invoices[i].ar = session[s].ar}
                exact == {i \in inScope : invoices[i].number = QClean(q)}
                others == {i \in inScope :
                              /\ CompanyMatch(company, invoices[i].client)
                              /\ PassesDates(i, DateFilter(year, month))}
                found == search(s, q, company, year, month)
            IN  IF QClean(q) # "" /\ exact # {}
                THEN found.res = "Redirect" /\ found.msg.invoices = exact
                     /\ Cardinality(exact) = 1
                ELSE IF QClean(q) # ""
                THEN found.res = "ok"
                     /\ found.msg.invoices =
                          {i \in others :
                              \/ Contains(QClean(q), invoices[i].number)
                              \/ Contains(QClean(q), clients[invoices[i].client].name)}
                ELSE found.res = "ok" /\ found.msg.invoices = others

----------------------------------------------------------------------------
(* Claims of the session specification. *)

(* C29: a login succeeds exactly when the trimmed, lower-cased email is     *)
(* that of a registered user and the password gives that user's stored      *)
(* hash with the stored salt, and it then makes that user the session's     *)
(* user; a login refused with InvalidCredentials leaves the session as it   *)
(* was; after a successful login the selected entity is one the user is     *)
(* granted, or none when the user has no grant.                             *)
C29_Login ==
    /\ [](\A e \in LoginEmails, pw \in Passwords :
            LET match == {u \in DOMAIN users :
                             /\ users[u].email = Lower(Strip(e))
                             /\ hash_password(pw, users[u].salt) = users[u].hash}
            IN  /\ login_result(e, pw).res = "ok" <=> match # {}
                /\ login_result(e, pw).res = "ok" => login_result(e, pw).msg \in match
                /\ login_result(e, pw).res # "ok" =>
                      login_result(e, pw).res = "InvalidCredentials")
    /\ [][\A s \in Sessions, e \in LoginEmails :
            /\ last' = [op |-> "login", sess |-> s, args |-> [error |-> "InvalidCredentials"]]
                  => session' = session
            /\ last' = [op |-> "login", sess |-> s, args |-> [email |-> e]] =>
                  /\ session'[s].uid = UserByEmail(Lower(Strip(e)))
                  /\ session'[s].uid \in DOMAIN users
                  /\ \/ <<session'[s].uid, session'[s].ar>> \in grants'
                     \/ /\ session'[s].ar = 0
                        /\ \A a \in ArIds : <<session'[s].uid, a>> \notin grants'
                  /\ \A t \in Sessions \ {s} : session'[t] = session[t]]_vars

(* The second user, who has no grant, has logged in while the admin is in   *)
(* the other session with one of the admin's entities selected: the second  *)
(* session has its user and no selected entity.                             *)
C29_Witness ==
    /\ last = [op |-> "login", sess |-> 2, args |-> [email |-> "b@x"]]
    /\ session[2] = [uid |-> 2, ar |-> 0]
    /\ \A a \in ArIds : <<2, a>> \notin grants
    /\ session[1].uid = 1 /\ session[1].ar \in user_allowed_ar_ids(1)
    /\ login_result(" A@X ", "pw") = R("ok", 1)
    /\ login_result("a@x", "bad").res = "InvalidCredentials"

(* C30: a step changes a session's user or selected entity only when it is  *)
(* a successful login, logout or switch of entity in that session; every    *)
(* ledger, admin and read request, accepted or refused, and every refused   *)
(* login or switch leaves every session as it was.                          *)
C30_SessionFrame ==
    [][\A s \in Sessions :
          /\ session'[s] # session[s] =>
                /\ last'.sess = s
                /\ last'.op \in {"login", "logout", "do_switch_ar"}
                /\ "error" \notin DOMAIN last'.args
          /\ session'[s].uid # session[s].uid => last'.op \in {"login", "logout"}
          /\ last'.op \notin {"login", "logout", "do_switch_ar"} => session' = session
          /\ "error" \in DOMAIN last'.args => session' = session]_vars

(* A payment by a session with a user and an entity has just been refused,  *)
(* after one was accepted, and the other session holds a user too.          *)
C30_Witness ==
    /\ last = [op |-> "payments_add", sess |-> 1, args |-> [error |-> "ExceedsBalance"]]
    /\ session[1] = [uid |-> 1, ar |-> 1]
    /\ session[2].uid = 2
    /\ payments # {}

----------------------------------------------------------------------------
(* Claims of the payment-form specification. *)

(* C31: payments_add and payments_update by a scoped session refuse every   *)
(* method that is not cash or check once trimmed and lower-cased, and       *)
(* refuse check without a check_number or a check_date; a refused request   *)
(* leaves the store as it was; every stored payment has a positive amount,  *)
(* the method cash or check, and with check both check fields.              *)
C31_PaymentFields ==
    /\ [](\A p \in payments :
            /\ p.amount > 0
            /\ p.method \in {"cash", "check"}
            /\ p.method = "check" => p.check_number \notin {"None", ""}
                                     /\ p.check_date \notin {"None", ""})
    /\ [](\A m \in MethodForms, a \in MethodPays, i \in 1..(Len(invoices) + 1),
            k \in 1..nextPid :
            LET bad == \/ Lower(Strip(m[1])) \notin {"cash", "check"}
                       \/ /\ Lower(Strip(m[1])) = "check"
                          /\ m[2] \in {"None", ""} \/ m[3] \in {"None", ""}
                add == payments_add_result(1, i, m[1], a, m[2], m[3]).res
                upd == payments_update_result(1, k, m[1], a, m[2], m[3]).res
            IN  ensure_scope(1) = "ok" =>
                  /\ bad <=> add \in {"MethodInvalid", "CheckFieldsRequired"}
                  /\ bad <=> upd \in {"MethodInvalid", "CheckFieldsRequired"})
    /\ [][\A op \in {"payments_add", "payments_update"},
            kind \in {"MethodInvalid", "CheckFieldsRequired"} :
            last' = [op |-> op, sess |-> 1, args |-> [error |-> kind]]
                => UNCHANGED store]_vars

(* A check payment with both fields is stored next to a cash payment, and   *)
(* the last request, a check without its number, was refused.               *)
C31_Witness ==
    /\ \E p \in payments : p.method = "check" /\ p.check_number = "77"
    /\ \E p \in payments : p.method = "cash"
    /\ last.op \in {"payments_add", "payments_update"}
    /\ last.args = [error |-> "CheckFieldsRequired"]

----------------------------------------------------------------------------
(* Claims across the paths. *)

(* C32: for a scoped session and every invoice of its entity, the balance   *)
(* the listing shows is the one paid_and_balance returns, and an OPEN       *)
(* invoice is in the outstanding listing exactly when payments_add does     *)
(* not refuse a payment on it as already fully paid.                        *)
C32_BalanceAcrossPaths ==
    \A s \in Sessions : ensure_scope(s) = "ok" =>
        LET all == invoices_list_rows(s, FALSE, "None", "None", "None", "None", TRUE)
            out == invoices_list_rows(s, TRUE, "None", "None", "None", "None", TRUE)
        IN  \A k \in DOMAIN all :
              LET i == all[k].id
              IN  /\ Format2(all[k].balance) = paid_and_balance(i)[3]
                  /\ all[k].paid = paid_and_balance(i)[2]
                  /\ invoices[i].status = "OPEN" =>
                        ( i \in ListIds(out) <=>
                            payments_add_result(s, i, "cash", 100, "None", "None").res
                                # "AlreadyPaid" )

----------------------------------------------------------------------------
(* Claims of the race specification. *)

(* C34: when the amendment and the payment requests have run to their end,  *)
(* however their statements interleaved, every OPEN invoice's amount is at  *)
(* least the total of its payments.                                         *)
C34_AmendPaymentRace ==
    (\A p \in Procs : procs[p].pc = "idle") =>
        \A i \in DOMAIN invoices :
            invoices[i].status = "OPEN" => invoices[i].amount >= PaidSum(i)

(* C35: once an invoice's status is VOID in the store, no step commits a    *)
(* payment insert, update or delete on it or a change of its amount.        *)
C35_NoWriteAfterVoid ==
    [][\A i \in DOMAIN invoices : invoices[i].status = "VOID" =>
          /\ {q \in payments' : q.invoice = i} = {q \in payments : q.invoice = i}
          /\ invoices'[i].amount = invoices[i].amount]_vars

(* C37: a request's write to the invoices or payments of an entity is       *)
(* committed only while the grant of the request's user to that entity      *)
(* exists.                                                                  *)
C37_WriteUnderGrant ==
    [][\A p \in Procs :
          (dbLock = p /\ dbLock' = 0 /\ (payments' # payments \/ invoices' # invoices)) =>
              <<session[procs[p].sess].uid, invoices[procs[p].invoice].ar>> \in grants]_vars

(* C36: however the statements of concurrent registrations interleave, at   *)
(* most one account is admin and at most one account holds grants it was    *)
(* given at registration.                                                   *)
C36_OneAdmin ==
    /\ Cardinality({u \in DOMAIN users : users[u].is_admin}) <= 1
    /\ Cardinality({u \in DOMAIN users : \E a \in ArIds : <<u, a>> \in grants}) <= 1

----------------------------------------------------------------------------
(* Claims on the two creation forms and on the windows. *)

(* C38: for the same session, client, number, dates and rate on the same    *)
(* store, invoices_create and client_create_invoice are both accepted or    *)
(* both refused; a creation through either form stores the row the other    *)
(* form would store from the same fields, and changes nothing else.         *)
C38_CreateFormsAgree ==
    /\ [](\A s \in Sessions, c \in 1..(Len(clients) + 1), n \in CreateNumbers,
            ci \in CreateCheckIns, co \in CreateCheckOuts, r \in CreateRates :
            invoices_create_result(s, c, n, ci, co, r).res = "ok"
                <=> client_create_invoice_result(s, c, n, ci, co, r).res = "ok")
    /\ [][\A op \in {"invoices_create", "client_create_invoice"} :
            (last'.op = op /\ invoices' # invoices) =>
               LET a == last'.args
                   nights == compute_nights(a.check_in, a.check_out)
                   row == [ar |-> session[last'.sess].ar, client |-> a.client,
                           number |-> Strip(a.number), check_in |-> a.check_in,
                           check_out |-> a.check_out, nights |-> nights, rate |-> a.rate,
                           amount |-> Round2(a.rate * nights), status |-> "OPEN"]
               IN  /\ invoices' = Append(invoices, row)
                   /\ invoices_create_result(last'.sess, a.client, a.number, a.check_in,
                                             a.check_out, a.rate).res = "ok"
                   /\ client_create_invoice_result(last'.sess, a.client, a.number, a.check_in,
                                                   a.check_out, a.rate).res = "ok"
                   /\ UNCHANGED <<users, grants, session, clients, payments, nextPid>>]_vars

(* One invoice was created through each form from the same fields but the   *)
(* number, at the rate 33.334 for 3 nights: both rows hold the amount       *)
(* 100.00 and differ in the number only.                                    *)
C38_Witness ==
    /\ Len(invoices) = 2
    /\ last.op = "client_create_invoice"
    /\ last.args.rate = 33334
    /\ invoices[1].rate = 33334 /\ invoices[1].amount = 100000
    /\ invoices[2] = [invoices[1] EXCEPT !.number = invoices[2].number]
    /\ invoices[2].number # invoices[1].number

(* The month parameter that int() reads as m. *)
MonthText ==
    <<"1", "2", "3", "4", "5", "6", "7", "8", "9", "10", "11", "12">>

(* C39: the twelve month windows of 2024 follow one another from the start  *)
(* of the year window to its end, each beginning where the one before       *)
(* ends, and for a scoped session an invoice is in the listing of the year  *)
(* exactly when it is in the listing of one of its months.                  *)
C39_MonthsCoverYear ==
    /\ month_range(2024, 1).start = year_range(2024).start
    /\ month_range(2024, 12).end = year_range(2024).end
    /\ \A m \in 1..11 : month_range(2024, m).end = month_range(2024, m + 1).start
    /\ \A m \in 1..12 :
          parse_date(month_range(2024, m).start) < parse_date(month_range(2024, m).end)
    /\ \A s \in Sessions : ensure_scope(s) = "ok" =>
          invoices_list(s, FALSE, "None", "None", "2024", "None", TRUE).msg.invoices
             = UNION {invoices_list(s, FALSE, "None", "None", "2024", MonthText[m],
                                    TRUE).msg.invoices : m \in 1..12}

====
